---- MODULE Spec2Model ----
(***************************************************************************)
(* The inbox multiplexer of arbstate (inbox.go): parseSequencerMessage,    *)
(* the DA providers, and inboxMultiplexer.Pop with its helpers, driven     *)
(* over a Backend that holds a queue of sequencer batches and a delayed    *)
(* inbox; and the Store of the LayerEdge DA writer.                        *)
(***************************************************************************)
EXTENDS Integers, Sequences, FiniteSets, TLC

VARIABLES
    r,      \* the inboxMultiplexer (its fields, r.backend included)
    ret,    \* what the last Pop returned, the multiplexer and the context it
            \* was called with
    hist,   \* history of the batch being drained: Pops since it was loaded
    r2,     \* a second multiplexer over a Backend of its own (replay)
    ret2,   \* what the last Pop of the second multiplexer returned
    calls,  \* in a replay, the Pops made on each of the two multiplexers
    decoded,\* a batch handed to parseSequencerMessage on its own, named by
            \* the shape of its stream, and what the parser returned for it
    stored, \* the last call of layerEdgeClientImpl.Store: its arguments, the
            \* answers of its collaborators and what it returned
    resumed \* once a fresh multiplexer has taken up the batch in progress: the
            \* position within the message it started at and the Pops made since

vars == <<r, ret, hist, r2, ret2, calls, decoded, stored, resumed>>

(***************************************************************************)
(* Bounds of the model.                                                    *)
(***************************************************************************)
\* uint64 arithmetic is done modulo WordMod
WordMod == 1048576
\* delayed messages the delayed inbox can come to hold; the largest
\* afterDelayedMessages of a generated batch
MaxDelayed == 2
\* position within a message after which a run is no longer extended
MaxPos == 6
\* Pops made on each multiplexer of a replay
MaxCalls == 5
\* segments of a generated batch
MaxSegs == 3

(***************************************************************************)
(* Values                                                                  *)
(***************************************************************************)
NoByte == -1            \* payload[0] / segment[0] of an empty byte string
Nil == [nil |-> TRUE]   \* a nil pointer / nil slice / nil error

Wrap(x) == x % WordMod

\* ---- segment kinds (inbox.go) ----
BatchSegmentKindL2Message == 0
BatchSegmentKindL2MessageBrotli == 1
BatchSegmentKindDelayedMessages == 2
BatchSegmentKindAdvanceTimestamp == 3
BatchSegmentKindAdvanceL1BlockNumber == 4

\* A segment is a byte string: kind is its first byte (NoByte when the
\* segment is empty), ok says whether its body decodes (brotli for kind 1,
\* an RLP uint64 for kinds 3 and 4), body is the L2 bytes it carries and
\* adv the number an advance directive carries.
Seg(kind, ok, body, adv) == [kind |-> kind, ok |-> ok, body |-> body, adv |-> adv]
EmptySeg == Seg(NoByte, TRUE, "", 0)
L2Seg(b) == Seg(BatchSegmentKindL2Message, TRUE, b, 0)
L2BrotliSeg(ok, b) == Seg(BatchSegmentKindL2MessageBrotli, ok, b, 0)
DelayedSeg == Seg(BatchSegmentKindDelayedMessages, TRUE, "", 0)
AdvTimeSeg(ok, n) == Seg(BatchSegmentKindAdvanceTimestamp, ok, "", n)
AdvBlockSeg(ok, n) == Seg(BatchSegmentKindAdvanceL1BlockNumber, ok, "", n)
UnknownSeg == Seg(5, TRUE, "", 0)

(***************************************************************************)
(* Header bytes.  The classifier (IsDASMessageHeaderByte and the others)   *)
(* lives outside the files at hand; a header byte is modelled by the class *)
(* the classifier puts it in.                                              *)
(***************************************************************************)
HeaderBytes == {"brotli", "zeroheavy", "das", "blob", "authUnknown", "other"}

IsDASMessageHeaderByte(b) == b = "das"
IsBlobHashesHeaderByte(b) == b = "blob"
IsZeroheavyEncodedHeaderByte(b) == b = "zeroheavy"
IsBrotliMessageHeaderByte(b) == b = "brotli"
IsL1AuthenticatedMessageHeaderByte(b) == b \in {"blob", "authUnknown"}
IsKnownHeaderByte(b) == b \in {"brotli", "zeroheavy", "das", "blob"}

(***************************************************************************)
(* Byte strings of a batch.  A payload is the bytes data[40:] (or the      *)
(* bytes a layer unwraps to): plen is its length, hb its first byte,       *)
(* cert/blob what a DA envelope in it holds and what the readers answer    *)
(* for it, zhOk whether it zero-heavy-decodes, brOk whether it             *)
(* brotli-decompresses, inner the bytes the layer named by hb unwraps to,  *)
(* stream the RLP items of the decompressed bytes.                         *)
(***************************************************************************)
RlpError == -2          \* an item of the stream that does not decode
BadItem == Seg(RlpError, FALSE, "", 0)

Payload(hb, plen, cert, blob, zhOk, brOk, inner, stream) ==
    [hb |-> hb, plen |-> plen, cert |-> cert, blob |-> blob, zhOk |-> zhOk,
     brOk |-> brOk, inner |-> inner, stream |-> stream]
EmptyPayload == Payload("none", 0, Nil, Nil, FALSE, FALSE, Nil, <<>>)
BrotliPayload(ok, stream) == Payload("brotli", 2, Nil, Nil, FALSE, ok, Nil, stream)
ZeroheavyPayload(ok, inner) == Payload("zeroheavy", 2, Nil, Nil, ok, FALSE, inner, <<>>)
OtherPayload(hb) == Payload(hb, 2, Nil, Nil, FALSE, FALSE, Nil, <<>>)
DasPayload(cert, inner) == Payload("das", 2, cert, Nil, FALSE, FALSE, inner, <<>>)
BlobPayload(plen, blob, inner) == Payload("blob", plen, Nil, blob, FALSE, FALSE, inner, <<>>)

\* A DAS certificate in data[40:] and the answers of the DAS reader for it.
Cert(parses, version, keysetGet, keysetParses, keysValid, sigOk, timeout, dataGet) ==
    [parses |-> parses, version |-> version, keysetGet |-> keysetGet,
     keysetParses |-> keysetParses, keysValid |-> keysValid, sigOk |-> sigOk,
     timeout |-> timeout, dataGet |-> dataGet]
\* What the blob reader answers for the hashes of a blob batch.
Blob(getBlobs, decodes) == [getBlobs |-> getBlobs, decodes |-> decodes]

\* The bytes the Backend holds for one batch.
Data(len, minT, maxT, minL1, maxL1, after, payload) ==
    [len |-> len, minTimestamp |-> minT, maxTimestamp |-> maxT,
     minL1Block |-> minL1, maxL1Block |-> maxL1,
     afterDelayedMessages |-> after, payload |-> payload]
Batch(minT, maxT, minL1, maxL1, after, payload) ==
    Data(40 + payload.plen, minT, maxT, minL1, maxL1, after, payload)
ShortData == Data(39, 0, 0, 0, 0, 0, EmptyPayload)

(***************************************************************************)
(* Constants of inbox.go                                                   *)
(***************************************************************************)
MaxSegmentsPerSequencerMessage == 102400
MinLifetimeSecondsForDataAvailabilityCert == 604800
KeysetValidate == 0
KeysetPanicIfInvalid == 1
KeysetDontValidate == 2

\* the errors Pop can return
NoErr == ""

(***************************************************************************)
(* DA providers                                                            *)
(***************************************************************************)
\* what RecoverPayloadFromBatch returns: ([]byte, error); exit is set when
\* log.Crit ended the process instead
Recovered(payload, err) == [payload |-> payload, err |-> err, exit |-> FALSE]

\* getByHash of RecoverPayloadFromDasBatch: the reader's answer for a hash
\* ("ok", "fetchErr", or bytes that do not hash to it) as an error
getByHash(answer) ==
    CASE answer = "ok" -> NoErr
      [] answer = "mismatch" -> "HashMismatch"
      [] OTHER -> "ReaderError"

\* DeserializeKeyset(keysetPreimage, assumeKeysetValid)
DeserializeKeyset(cert, assumeKeysetValid) ==
    cert.keysetParses /\ (assumeKeysetValid \/ cert.keysValid)

\* RecoverPayloadFromDasBatch that verifies no signature in KeysetDontValidate
RecoverPayloadFromDasBatchTrustsSignature(sequencerMsg, keysetValidationMode) ==
    LET cert == sequencerMsg.payload.cert
        maxTimestamp == sequencerMsg.maxTimestamp
    IN  IF ~cert.parses THEN Recovered(Nil, NoErr)
        ELSE IF cert.version >= 2 THEN Recovered(Nil, NoErr)
        ELSE IF getByHash(cert.keysetGet) # NoErr
             THEN Recovered(Nil, getByHash(cert.keysetGet))
        ELSE IF ~DeserializeKeyset(cert, keysetValidationMode = KeysetDontValidate)
             THEN [payload |-> Nil, err |-> NoErr,
                   exit |-> keysetValidationMode = KeysetPanicIfInvalid]
        ELSE IF ~cert.sigOk /\ keysetValidationMode # KeysetDontValidate
             THEN Recovered(Nil, NoErr)
        ELSE IF cert.timeout < Wrap(maxTimestamp + MinLifetimeSecondsForDataAvailabilityCert)
             THEN Recovered(Nil, NoErr)
        ELSE IF getByHash(cert.dataGet) # NoErr
             THEN Recovered(Nil, getByHash(cert.dataGet))
        ELSE Recovered(sequencerMsg.payload.inner, NoErr)

RecoverPayloadFromDasBatch(sequencerMsg, keysetValidationMode) ==
    LET cert == sequencerMsg.payload.cert
        maxTimestamp == sequencerMsg.maxTimestamp
    IN  IF ~cert.parses THEN Recovered(Nil, NoErr)
        ELSE IF cert.version >= 2 THEN Recovered(Nil, NoErr)
        ELSE IF getByHash(cert.keysetGet) # NoErr
             THEN Recovered(Nil, getByHash(cert.keysetGet))
        ELSE IF ~DeserializeKeyset(cert, keysetValidationMode = KeysetDontValidate)
             THEN [payload |-> Nil, err |-> NoErr,
                   exit |-> keysetValidationMode = KeysetPanicIfInvalid]
        ELSE IF ~cert.sigOk THEN Recovered(Nil, NoErr)
        ELSE IF cert.timeout < Wrap(maxTimestamp + MinLifetimeSecondsForDataAvailabilityCert)
             THEN Recovered(Nil, NoErr)
        ELSE IF getByHash(cert.dataGet) # NoErr
             THEN Recovered(Nil, getByHash(cert.dataGet))
        ELSE Recovered(sequencerMsg.payload.inner, NoErr)

BlobRecoverPayloadFromBatch(sequencerMsg) ==
    LET blobHashesLen == sequencerMsg.len - 41
        blob == sequencerMsg.payload.blob
    IN  IF blobHashesLen % 32 # 0 THEN Recovered(Nil, "NotAListOfHashes")
        ELSE IF blob.getBlobs # "ok" THEN Recovered(Nil, "ReaderError")
        ELSE IF ~blob.decodes THEN Recovered(Nil, NoErr)
        ELSE Recovered(sequencerMsg.payload.inner, NoErr)

\* a provider of the daProviders list is "das", "blob" or "nil"
IsValidHeaderByte(provider, headerByte) ==
    CASE provider = "das" -> IsDASMessageHeaderByte(headerByte)
      [] provider = "blob" -> IsBlobHashesHeaderByte(headerByte)
      [] OTHER -> FALSE

RecoverPayloadFromBatch(provider, sequencerMsg, keysetValidationMode) ==
    IF provider = "das"
    THEN RecoverPayloadFromDasBatch(sequencerMsg, keysetValidationMode)
    ELSE BlobRecoverPayloadFromBatch(sequencerMsg)

(***************************************************************************)
(* parseSequencerMessage                                                   *)
(***************************************************************************)
\* what parseSequencerMessage returns: (*sequencerMessage, error), with the
\* providers whose RecoverPayloadFromBatch it called, in call order
Parsed(msg, err, called) == [msg |-> msg, err |-> err, called |-> called, exit |-> FALSE]

\* the loop over the providers that does not stop at the first that claims
\* the header byte: the last one that claims it has the last word
LastClaiming(daProviders, headerByte) ==
    LET claiming == {i \in 1..Len(daProviders) :
                        daProviders[i] # "nil" /\ IsValidHeaderByte(daProviders[i], headerByte)}
    IN  IF claiming = {} THEN 0 ELSE CHOOSE i \in claiming : \A j \in claiming : i >= j

\* the index of the first provider of the list that is not nil and claims
\* the header byte, 0 if there is none
FirstClaiming(daProviders, headerByte) ==
    LET claiming == {i \in 1..Len(daProviders) :
                        daProviders[i] # "nil" /\ IsValidHeaderByte(daProviders[i], headerByte)}
    IN  IF claiming = {} THEN 0 ELSE CHOOSE i \in claiming : \A j \in claiming : i <= j

\* Stage 3 with the cap tested after the append
DecodeSegmentsCapAfterAppend(payload) ==
    LET bad == {i \in 1..Len(payload.stream) : payload.stream[i].kind = RlpError}
        n == IF bad = {} THEN Len(payload.stream)
             ELSE (CHOOSE i \in bad : \A j \in bad : i <= j) - 1
        kept == IF n > MaxSegmentsPerSequencerMessage + 1
                THEN MaxSegmentsPerSequencerMessage + 1 ELSE n
    IN  SubSeq(payload.stream, 1, kept)

\* Stage 3: the segments decoded from a brotli payload
DecodeSegments(payload) ==
    LET bad == {i \in 1..Len(payload.stream) : payload.stream[i].kind = RlpError}
        n == IF bad = {} THEN Len(payload.stream)
             ELSE (CHOOSE i \in bad : \A j \in bad : i <= j) - 1
        kept == IF n > MaxSegmentsPerSequencerMessage
                THEN MaxSegmentsPerSequencerMessage ELSE n
    IN  SubSeq(payload.stream, 1, kept)

\* Stages 2 and 3, on the payload Stage 1 left
DecodePayload(parsedMsg, payload1, called) ==
    LET zh == payload1.plen > 0 /\ IsZeroheavyEncodedHeaderByte(payload1.hb)
        payload == IF zh /\ payload1.zhOk THEN payload1.inner ELSE payload1
    IN  IF zh /\ ~payload1.zhOk THEN Parsed(parsedMsg, NoErr, called)
        ELSE IF payload.plen > 0 /\ IsBrotliMessageHeaderByte(payload.hb) /\ payload.brOk
             THEN Parsed([parsedMsg EXCEPT !.segments = DecodeSegments(payload)], NoErr, called)
        ELSE Parsed(parsedMsg, NoErr, called)

\* !foundDA that only logs, for the blob byte as for the DAS byte
NoProviderFoundLogsOnly(parsedMsg, payload) ==
    DecodePayload(parsedMsg, payload, <<>>)

\* Stage 1 when no provider of the list claims the header byte (!foundDA)
NoProviderFound(parsedMsg, payload) ==
    IF IsDASMessageHeaderByte(payload.hb) THEN DecodePayload(parsedMsg, payload, <<>>)
    ELSE IF IsBlobHashesHeaderByte(payload.hb) THEN Parsed(Nil, "NoBlobReader", <<>>)
    ELSE DecodePayload(parsedMsg, payload, <<>>)

parseSequencerMessage(data, daProviders, keysetValidationMode) ==
    IF data.len < 40 THEN Parsed(Nil, "MissingHeader", <<>>)
    ELSE
    LET parsedMsg == [minTimestamp |-> data.minTimestamp,
                      maxTimestamp |-> data.maxTimestamp,
                      minL1Block |-> data.minL1Block,
                      maxL1Block |-> data.maxL1Block,
                      afterDelayedMessages |-> data.afterDelayedMessages,
                      segments |-> <<>>]
        payload == data.payload
        hb == payload.hb
        p == FirstClaiming(daProviders, hb)
    IN  IF payload.plen > 0 /\ IsL1AuthenticatedMessageHeaderByte(hb) /\ ~IsKnownHeaderByte(hb)
        THEN Parsed(Nil, "FatalNodeOutOfDate", <<>>)
        ELSE IF payload.plen = 0 THEN DecodePayload(parsedMsg, payload, <<>>)
        ELSE IF p # 0
        THEN LET rec == RecoverPayloadFromBatch(daProviders[p], data, keysetValidationMode)
             IN  IF rec.exit
                 THEN [msg |-> Nil, err |-> NoErr, called |-> <<p>>, exit |-> TRUE]
                 ELSE IF rec.err # NoErr THEN Parsed(Nil, rec.err, <<p>>)
                 ELSE IF rec.payload = Nil THEN Parsed(parsedMsg, NoErr, <<p>>)
                 ELSE DecodePayload(parsedMsg, rec.payload, <<p>>)
        ELSE NoProviderFound(parsedMsg, payload)

(***************************************************************************)
(* Backend (InboxBackend): inbox is the queue of batches, seqInboxPos the  *)
(* position in it, posWithinMessage the sub-message position, delayed the  *)
(* number of messages the delayed inbox holds (numbers 0 .. delayed-1).    *)
(***************************************************************************)
\* PeekSequencerInbox: (bytes, error)
PeekSequencerInbox(backend) ==
    IF backend.seqInboxPos < Len(backend.inbox)
    THEN [bytes |-> backend.inbox[backend.seqInboxPos + 1], err |-> NoErr]
    ELSE [bytes |-> Nil, err |-> "BackendError"]

\* ReadDelayedInbox that answers with the oldest message of the delayed inbox
ReadDelayedInboxOldest(backend, seqNum) ==
    IF seqNum < backend.delayed
    THEN [delayed |-> 0, err |-> NoErr]
    ELSE [delayed |-> 0, err |-> "BackendError"]

\* ReadDelayedInbox(seqNum): (message, error); the message is named by its number
ReadDelayedInbox(backend, seqNum) ==
    IF seqNum < backend.delayed
    THEN [delayed |-> seqNum, err |-> NoErr]
    ELSE [delayed |-> 0, err |-> "BackendError"]

(***************************************************************************)
(* Messages (arbostypes.MessageWithMetadata)                               *)
(***************************************************************************)
L2Message(l2msg, blockNumber, timestamp, delayedMessagesRead) ==
    [kind |-> "L2Message", l2msg |-> l2msg, blockNumber |-> blockNumber,
     timestamp |-> timestamp, delayed |-> 0,
     DelayedMessagesRead |-> delayedMessagesRead]
\* the delayed message built before delayedMessagesRead is incremented
DelayedMessageBeforeRead(delayed, delayedMessagesRead) ==
    [kind |-> "Delayed", l2msg |-> "", blockNumber |-> 0, timestamp |-> 0,
     delayed |-> delayed,
     DelayedMessagesRead |-> IF delayedMessagesRead > 0 THEN delayedMessagesRead - 1 ELSE 0]
DelayedMessage(delayed, delayedMessagesRead) ==
    [kind |-> "Delayed", l2msg |-> "", blockNumber |-> 0, timestamp |-> 0,
     delayed |-> delayed, DelayedMessagesRead |-> delayedMessagesRead]
InvalidL1Message(delayedMessagesRead) ==
    [kind |-> "Invalid", l2msg |-> "", blockNumber |-> 0, timestamp |-> 0,
     delayed |-> 0, DelayedMessagesRead |-> delayedMessagesRead]

(***************************************************************************)
(* inboxMultiplexer                                                        *)
(***************************************************************************)
\* NewInboxMultiplexer that takes the Backend's position within the message
\* for the sub-message cursor
NewInboxMultiplexerAtPosition(backend, delayedMessagesRead, daProviders, keysetValidationMode) ==
    [backend |-> backend,
     delayedMessagesRead |-> delayedMessagesRead,
     daProviders |-> daProviders,
     cachedSequencerMessage |-> Nil,
     cachedSequencerMessageNum |-> 0,
     cachedSegmentNum |-> 0,
     cachedSegmentTimestamp |-> 0,
     cachedSegmentBlockNumber |-> 0,
     cachedSubMessageNumber |-> backend.posWithinMessage,
     keysetValidationMode |-> keysetValidationMode,
     exited |-> FALSE]

NewInboxMultiplexer(backend, delayedMessagesRead, daProviders, keysetValidationMode) ==
    [backend |-> backend,
     delayedMessagesRead |-> delayedMessagesRead,
     daProviders |-> daProviders,
     cachedSequencerMessage |-> Nil,
     cachedSequencerMessageNum |-> 0,
     cachedSegmentNum |-> 0,
     cachedSegmentTimestamp |-> 0,
     cachedSegmentBlockNumber |-> 0,
     cachedSubMessageNumber |-> 0,
     keysetValidationMode |-> keysetValidationMode,
     exited |-> FALSE]

\* advanceSequencerMsg that clears delayedMessagesRead with the cursors
advanceSequencerMsgClearsDelayed(m) ==
    [m EXCEPT !.delayedMessagesRead = 0,
              !.backend.posWithinMessage = 0,
              !.backend.seqInboxPos = Wrap(@ + 1),
              !.cachedSequencerMessage = Nil,
              !.cachedSegmentNum = 0,
              !.cachedSegmentTimestamp = 0,
              !.cachedSegmentBlockNumber = 0,
              !.cachedSubMessageNumber = 0]

\* advanceSequencerMsg that leaves the running timestamp and block number
advanceSequencerMsgKeepsClock(m) ==
    [m EXCEPT !.delayedMessagesRead =
                  IF m.cachedSequencerMessage # Nil
                  THEN m.cachedSequencerMessage.afterDelayedMessages ELSE @,
              !.backend.posWithinMessage = 0,
              !.backend.seqInboxPos = Wrap(@ + 1),
              !.cachedSequencerMessage = Nil,
              !.cachedSegmentNum = 0,
              !.cachedSubMessageNumber = 0]

advanceSequencerMsg(m) ==
    [m EXCEPT !.delayedMessagesRead =
                  IF m.cachedSequencerMessage # Nil
                  THEN m.cachedSequencerMessage.afterDelayedMessages ELSE @,
              !.backend.posWithinMessage = 0,
              !.backend.seqInboxPos = Wrap(@ + 1),
              !.cachedSequencerMessage = Nil,
              !.cachedSegmentNum = 0,
              !.cachedSegmentTimestamp = 0,
              !.cachedSegmentBlockNumber = 0,
              !.cachedSubMessageNumber = 0]

\* advanceSubMsg that reads the position and never writes it back
advanceSubMsgNotStored(m) ==
    m

advanceSubMsg(m) ==
    [m EXCEPT !.backend.posWithinMessage = Wrap(@ + 1)]

\* segments[i] of Go is segments[i + 1] here
IsRealSegment(segment) ==
    segment.kind \in {BatchSegmentKindL2Message, BatchSegmentKindL2MessageBrotli,
                      BatchSegmentKindDelayedMessages}

\* IsCachedSegementLast with the scan started at the cursor, not after it
IsCachedSegementLastFromCursor(m) ==
    LET seqMsg == m.cachedSequencerMessage
    IN  IF m.delayedMessagesRead < seqMsg.afterDelayedMessages THEN FALSE
        ELSE ~\E segmentNum \in m.cachedSegmentNum..(Len(seqMsg.segments) - 1) :
                 IsRealSegment(seqMsg.segments[segmentNum + 1])

\* IsCachedSegementLast that every later sub-message keeps open, of a known
\* kind or not
IsCachedSegementLastCountsUnknown(m) ==
    LET seqMsg == m.cachedSequencerMessage
    IN  IF m.delayedMessagesRead < seqMsg.afterDelayedMessages THEN FALSE
        ELSE ~\E segmentNum \in (m.cachedSegmentNum + 1)..(Len(seqMsg.segments) - 1) :
                 seqMsg.segments[segmentNum + 1].kind
                     \notin {NoByte, BatchSegmentKindAdvanceTimestamp,
                              BatchSegmentKindAdvanceL1BlockNumber}

\* IsCachedSegementLast that any later segment that is not empty keeps open
IsCachedSegementLastAnyKind(m) ==
    LET seqMsg == m.cachedSequencerMessage
    IN  IF m.delayedMessagesRead < seqMsg.afterDelayedMessages THEN FALSE
        ELSE ~\E segmentNum \in (m.cachedSegmentNum + 1)..(Len(seqMsg.segments) - 1) :
                 seqMsg.segments[segmentNum + 1].kind # NoByte

\* IsCachedSegementLast that looks at the segments only
IsCachedSegementLastIgnoresDelayed(m) ==
    LET seqMsg == m.cachedSequencerMessage
    IN  ~\E segmentNum \in (m.cachedSegmentNum + 1)..(Len(seqMsg.segments) - 1) :
            IsRealSegment(seqMsg.segments[segmentNum + 1])

\* IsCachedSegementLast with the scan started at the first segment
IsCachedSegementLastFromStart(m) ==
    LET seqMsg == m.cachedSequencerMessage
    IN  IF m.delayedMessagesRead < seqMsg.afterDelayedMessages THEN FALSE
        ELSE ~\E segmentNum \in 0..(Len(seqMsg.segments) - 1) :
                 IsRealSegment(seqMsg.segments[segmentNum + 1])

IsCachedSegementLast(m) ==
    LET seqMsg == m.cachedSequencerMessage
    IN  IF m.delayedMessagesRead < seqMsg.afterDelayedMessages THEN FALSE
        ELSE ~\E segmentNum \in (m.cachedSegmentNum + 1)..(Len(seqMsg.segments) - 1) :
                 IsRealSegment(seqMsg.segments[segmentNum + 1])

\* the loop of getNextMsg: the cursors it stops at
RECURSIVE WalkSegments(_, _, _, _, _, _)
WalkSegments(segments, targetSubMessage, segmentNum, timestamp, blockNumber, submessageNumber) ==
    LET here == [segmentNum |-> segmentNum, timestamp |-> timestamp,
                 blockNumber |-> blockNumber, submessageNumber |-> submessageNumber]
    IN  IF segmentNum >= Len(segments) THEN here
        ELSE LET segment == segments[segmentNum + 1]
             IN  IF segment.kind = NoByte
                 THEN WalkSegments(segments, targetSubMessage, segmentNum + 1,
                                   timestamp, blockNumber, submessageNumber)
                 ELSE IF segment.kind \in {BatchSegmentKindAdvanceTimestamp,
                                           BatchSegmentKindAdvanceL1BlockNumber}
                 THEN IF ~segment.ok
                      THEN WalkSegments(segments, targetSubMessage, segmentNum + 1,
                                        timestamp, blockNumber, submessageNumber)
                      ELSE IF segment.kind = BatchSegmentKindAdvanceTimestamp
                      THEN WalkSegments(segments, targetSubMessage, segmentNum + 1,
                                        Wrap(timestamp + segment.adv), blockNumber,
                                        submessageNumber)
                      ELSE WalkSegments(segments, targetSubMessage, segmentNum + 1,
                                        timestamp, Wrap(blockNumber + segment.adv),
                                        submessageNumber)
                 ELSE IF submessageNumber < targetSubMessage
                 THEN WalkSegments(segments, targetSubMessage, segmentNum + 1,
                                   timestamp, blockNumber, Wrap(submessageNumber + 1))
                 ELSE here

\* a clamp that has no upper bound
ClampFromBelow(value, min, max) ==
    IF value < min THEN min ELSE value

\* a clamp that has no lower bound
ClampFromAbove(value, min, max) ==
    IF value > max THEN max ELSE value

\* the clamp of getNextMsg
Clamp(value, min, max) ==
    IF value < min THEN min ELSE IF value > max THEN max ELSE value

\* getNextMsg that stores the clamped timestamp and block number as the
\* running values
getNextMsgStoresClamped(m) ==
    LET targetSubMessage == m.backend.posWithinMessage
        seqMsg == m.cachedSequencerMessage
        w == WalkSegments(seqMsg.segments, targetSubMessage, m.cachedSegmentNum,
                          m.cachedSegmentTimestamp, m.cachedSegmentBlockNumber,
                          m.cachedSubMessageNumber)
        timestamp == Clamp(w.timestamp, seqMsg.minTimestamp, seqMsg.maxTimestamp)
        blockNumber == Clamp(w.blockNumber, seqMsg.minL1Block, seqMsg.maxL1Block)
        m1 == [m EXCEPT !.cachedSegmentNum = w.segmentNum,
                        !.cachedSegmentTimestamp = timestamp,
                        !.cachedSegmentBlockNumber = blockNumber,
                        !.cachedSubMessageNumber = w.submessageNumber]
        virtual == w.segmentNum >= Len(seqMsg.segments)
        segment == IF virtual THEN DelayedSeg ELSE seqMsg.segments[w.segmentNum + 1]
        kind == segment.kind
    IN  IF kind = NoByte THEN [r |-> m1, msg |-> Nil, err |-> NoErr]
        ELSE IF kind \in {BatchSegmentKindL2Message, BatchSegmentKindL2MessageBrotli}
        THEN IF kind = BatchSegmentKindL2MessageBrotli /\ ~segment.ok
             THEN [r |-> m1, msg |-> Nil, err |-> NoErr]
             ELSE [r |-> m1,
                   msg |-> L2Message(segment.body, blockNumber, timestamp,
                                     m.delayedMessagesRead),
                   err |-> NoErr]
        ELSE IF kind = BatchSegmentKindDelayedMessages
        THEN IF m.delayedMessagesRead >= seqMsg.afterDelayedMessages
             THEN [r |-> m1, msg |-> InvalidL1Message(seqMsg.afterDelayedMessages),
                   err |-> NoErr]
             ELSE LET rd == ReadDelayedInbox(m.backend, m.delayedMessagesRead)
                  IN  IF rd.err # NoErr THEN [r |-> m1, msg |-> Nil, err |-> rd.err]
                      ELSE [r |-> [m1 EXCEPT !.delayedMessagesRead = Wrap(@ + 1)],
                            msg |-> DelayedMessage(rd.delayed, Wrap(m.delayedMessagesRead + 1)),
                            err |-> NoErr]
        ELSE [r |-> m1, msg |-> Nil, err |-> NoErr]

\* getNextMsg: the multiplexer after the call, the message and the error
getNextMsg(m) ==
    LET targetSubMessage == m.backend.posWithinMessage
        seqMsg == m.cachedSequencerMessage
        w == WalkSegments(seqMsg.segments, targetSubMessage, m.cachedSegmentNum,
                          m.cachedSegmentTimestamp, m.cachedSegmentBlockNumber,
                          m.cachedSubMessageNumber)
        m1 == [m EXCEPT !.cachedSegmentNum = w.segmentNum,
                        !.cachedSegmentTimestamp = w.timestamp,
                        !.cachedSegmentBlockNumber = w.blockNumber,
                        !.cachedSubMessageNumber = w.submessageNumber]
        timestamp == Clamp(w.timestamp, seqMsg.minTimestamp, seqMsg.maxTimestamp)
        blockNumber == Clamp(w.blockNumber, seqMsg.minL1Block, seqMsg.maxL1Block)
        virtual == w.segmentNum >= Len(seqMsg.segments)
        segment == IF virtual THEN DelayedSeg ELSE seqMsg.segments[w.segmentNum + 1]
        kind == segment.kind
    IN  IF kind = NoByte THEN [r |-> m1, msg |-> Nil, err |-> NoErr]
        ELSE IF kind \in {BatchSegmentKindL2Message, BatchSegmentKindL2MessageBrotli}
        THEN IF kind = BatchSegmentKindL2MessageBrotli /\ ~segment.ok
             THEN [r |-> m1, msg |-> Nil, err |-> NoErr]
             ELSE [r |-> m1,
                   msg |-> L2Message(segment.body, blockNumber, timestamp,
                                     m.delayedMessagesRead),
                   err |-> NoErr]
        ELSE IF kind = BatchSegmentKindDelayedMessages
        THEN IF m.delayedMessagesRead >= seqMsg.afterDelayedMessages
             THEN [r |-> m1, msg |-> InvalidL1Message(seqMsg.afterDelayedMessages),
                   err |-> NoErr]
             ELSE LET rd == ReadDelayedInbox(m.backend, m.delayedMessagesRead)
                  IN  IF rd.err # NoErr THEN [r |-> m1, msg |-> Nil, err |-> rd.err]
                      ELSE [r |-> [m1 EXCEPT !.delayedMessagesRead = Wrap(@ + 1)],
                            msg |-> DelayedMessage(rd.delayed, Wrap(m.delayedMessagesRead + 1)),
                            err |-> NoErr]
        ELSE [r |-> m1, msg |-> Nil, err |-> NoErr]

\* Pop that advances only when getNextMsg produced a message
PopCachedAdvanceOnMessage(m) ==
    LET g == getNextMsg(m)
        adv == IF g.msg = Nil THEN g.r
               ELSE IF IsCachedSegementLast(g.r) THEN advanceSequencerMsg(g.r)
               ELSE advanceSubMsg(g.r)
    IN  [r |-> adv,
         msg |-> IF g.msg = Nil /\ g.err = NoErr
                 THEN InvalidL1Message(adv.delayedMessagesRead) ELSE g.msg,
         err |-> g.err]

\* the part of Pop after the batch is cached
PopCached(m) ==
    LET g == getNextMsg(m)
        adv == IF IsCachedSegementLast(g.r) THEN advanceSequencerMsg(g.r)
               ELSE advanceSubMsg(g.r)
    IN  [r |-> adv,
         msg |-> IF g.msg = Nil /\ g.err = NoErr
                 THEN InvalidL1Message(adv.delayedMessagesRead) ELSE g.msg,
         err |-> g.err]

\* Pop with the running timestamp and block number kept in one place
\* shared by all multiplexers (the first multiplexer's), not in the receiver
PopOnSharedClock(m) ==
    LET shared == [m EXCEPT !.cachedSegmentTimestamp = r.cachedSegmentTimestamp,
                            !.cachedSegmentBlockNumber = r.cachedSegmentBlockNumber]
    IN  IF shared.cachedSequencerMessage = Nil
        THEN LET peek == PeekSequencerInbox(shared.backend)
             IN  IF peek.err # NoErr THEN [r |-> shared, msg |-> Nil, err |-> peek.err]
                 ELSE LET m1 == [shared EXCEPT !.cachedSequencerMessageNum =
                                                   shared.backend.seqInboxPos]
                          parsed == parseSequencerMessage(peek.bytes, shared.daProviders,
                                                          shared.keysetValidationMode)
                      IN  IF parsed.exit
                          THEN [r |-> [m1 EXCEPT !.exited = TRUE], msg |-> Nil, err |-> NoErr]
                          ELSE IF parsed.err # NoErr
                          THEN [r |-> m1, msg |-> Nil, err |-> parsed.err]
                          ELSE PopCached([m1 EXCEPT !.cachedSequencerMessage = parsed.msg])
        ELSE PopCached(shared)

\* Pop that advances the position within the message on a parse error, as it
\* does on an error of getNextMsg
PopAdvancesOnParseError(m) ==
    IF m.cachedSequencerMessage = Nil
    THEN LET peek == PeekSequencerInbox(m.backend)
         IN  IF peek.err # NoErr THEN [r |-> m, msg |-> Nil, err |-> peek.err]
             ELSE LET m1 == [m EXCEPT !.cachedSequencerMessageNum = m.backend.seqInboxPos]
                      parsed == parseSequencerMessage(peek.bytes, m.daProviders,
                                                      m.keysetValidationMode)
                  IN  IF parsed.exit
                      THEN [r |-> [m1 EXCEPT !.exited = TRUE], msg |-> Nil, err |-> NoErr]
                      ELSE IF parsed.err # NoErr
                      THEN [r |-> advanceSubMsg(m1), msg |-> Nil, err |-> parsed.err]
                      ELSE PopCached([m1 EXCEPT !.cachedSequencerMessage = parsed.msg])
    ELSE PopCached(m)

\* Pop: the multiplexer after the call, the message and the error
Pop(m) ==
    IF m.cachedSequencerMessage = Nil
    THEN LET peek == PeekSequencerInbox(m.backend)
         IN  IF peek.err # NoErr THEN [r |-> m, msg |-> Nil, err |-> peek.err]
             ELSE LET m1 == [m EXCEPT !.cachedSequencerMessageNum = m.backend.seqInboxPos]
                      parsed == parseSequencerMessage(peek.bytes, m.daProviders,
                                                      m.keysetValidationMode)
                  IN  IF parsed.exit
                      THEN [r |-> [m1 EXCEPT !.exited = TRUE], msg |-> Nil, err |-> NoErr]
                      ELSE IF parsed.err # NoErr
                      THEN [r |-> m1, msg |-> Nil, err |-> parsed.err]
                      ELSE PopCached([m1 EXCEPT !.cachedSequencerMessage = parsed.msg])
    ELSE PopCached(m)

DelayedMessagesRead(m) == m.delayedMessagesRead

(***************************************************************************)
(* LayerEdge DA writer (layeredge package).  Byte strings are sequences of *)
(* numbers 0..255.                                                         *)
(***************************************************************************)
\* a []byte that is not nil
Bytes(b) == [bytes |-> b]

\* the first byte of a serialized BlobPointer
AvailMessageHeaderFlag == 10
\* the length of the serialized fields of a BlobPointer other than BlockHeight
BlobPointerRestLen == 2

\* a uint32 as four bytes, the most significant first, and back
BigEndian32(n) ==
    <<(n \div 16777216) % 256, (n \div 65536) % 256, (n \div 256) % 256, n % 256>>
FromBigEndian32(b) ==
    b[1] * 16777216 + b[2] * 65536 + b[3] * 256 + b[4]

\* avail.BlobPointer: BlockHeight and, as the bytes they serialize to, the
\* other fields
BlobPointer(BlockHeight, rest) == [BlockHeight |-> BlockHeight, rest |-> rest]

\* BlobPointer.MarshalToBinary: the header flag, then the fields
MarshalToBinary(blobPointer) ==
    <<AvailMessageHeaderFlag>> \o BigEndian32(blobPointer.BlockHeight) \o blobPointer.rest

\* BlobPointer.UnmarshalFromBinary(data): the pointer read and the error
UnmarshalFromBinary(data) ==
    IF Len(data) # 4 + BlobPointerRestLen
    THEN [blobData |-> Nil, err |-> "UnmarshalError"]
    ELSE [blobData |-> BlobPointer(FromBigEndian32(SubSeq(data, 1, 4)),
                                   SubSeq(data, 5, Len(data))),
          err |-> NoErr]

\* daprovider.Writer.Store of the Avail writer: (data, error), as the writer
\* of this call answers
availWriterStore(availWriter, message, timeout, disableFallbackStoreDataOnChain) ==
    IF availWriter.err # NoErr THEN [data |-> Nil, err |-> availWriter.err]
    ELSE [data |-> Bytes(availWriter.data), err |-> NoErr]

\* layerEdgeRPC.AddBlockByNumber(blockNumber): the error of the GET request
\* (of the transport, or STATUS NOT OK from the response hook), nil otherwise
AddBlockByNumber(rpc, blockNumber) ==
    IF rpc \in {"transportError", "statusNotOK"} THEN rpc ELSE NoErr

\* a call of a collaborator, as the log of a Store records it
Call(fn, arg) == [fn |-> fn, arg |-> arg]

\* Store that unmarshals the Avail bytes with their header byte
StoreKeepsHeaderByte(l, message, timeout, disableFallbackStoreDataOnChain) ==
    LET stored1 == availWriterStore(l.availWriter, message, timeout,
                                    disableFallbackStoreDataOnChain)
        call1 == Call("availWriter.Store",
                      <<message, timeout, disableFallbackStoreDataOnChain>>)
    IN  IF stored1.err # NoErr
        THEN [data |-> Nil, err |-> stored1.err, calls |-> <<call1>>]
        ELSE LET un == UnmarshalFromBinary(stored1.data.bytes)
             IN  IF un.err # NoErr
                 THEN [data |-> Nil, err |-> un.err, calls |-> <<call1>>]
                 ELSE LET call2 == Call("rpc.AddBlockByNumber", un.blobData.BlockHeight)
                          err == AddBlockByNumber(l.rpc, un.blobData.BlockHeight)
                      IN  IF err # NoErr
                          THEN [data |-> Nil, err |-> err, calls |-> <<call1, call2>>]
                          ELSE [data |-> stored1.data, err |-> NoErr,
                                calls |-> <<call1, call2>>]

\* layerEdgeClientImpl.Store: the data and the error it returns, and the
\* calls it made on its collaborators, in order
Store(l, message, timeout, disableFallbackStoreDataOnChain) ==
    LET stored1 == availWriterStore(l.availWriter, message, timeout,
                                    disableFallbackStoreDataOnChain)
        call1 == Call("availWriter.Store",
                      <<message, timeout, disableFallbackStoreDataOnChain>>)
    IN  IF stored1.err # NoErr
        THEN [data |-> Nil, err |-> stored1.err, calls |-> <<call1>>]
        ELSE LET un == UnmarshalFromBinary(Tail(stored1.data.bytes))
             IN  IF un.err # NoErr
                 THEN [data |-> Nil, err |-> un.err, calls |-> <<call1>>]
                 ELSE LET call2 == Call("rpc.AddBlockByNumber", un.blobData.BlockHeight)
                          err == AddBlockByNumber(l.rpc, un.blobData.BlockHeight)
                      IN  IF err # NoErr
                          THEN [data |-> Nil, err |-> err, calls |-> <<call1, call2>>]
                          ELSE [data |-> stored1.data, err |-> NoErr,
                                calls |-> <<call1, call2>>]

\* NewLayerEdgeDAWriter
NewLayerEdgeDAWriter(layerEdgeWriter, availWriter) ==
    [rpc |-> layerEdgeWriter, availWriter |-> availWriter]

(***************************************************************************)
(* Inputs: the batches the Backend can hold                                *)
(***************************************************************************)
RECURSIVE SeqsUpTo(_, _)
SeqsUpTo(S, n) ==
    IF n = 0 THEN {<<>>}
    ELSE LET shorter == SeqsUpTo(S, n - 1)
         IN  shorter \cup {Append(q, x) : q \in {t \in shorter : Len(t) = n - 1}, x \in S}

\* the segments batches are generated from
SegAlphabet ==
    {EmptySeg, L2Seg("x"), L2BrotliSeg(FALSE, ""), DelayedSeg,
     AdvTimeSeg(TRUE, 1), UnknownSeg}

\* batches that parse, with every list of segments
SegBatches ==
    {Batch(1, 3, 1, 3, after, BrotliPayload(TRUE, segs)) :
        after \in 0..MaxDelayed, segs \in SeqsUpTo(SegAlphabet, MaxSegs)}

\* batches of every header window, with advance directives of every kind
ClampWindows == {<<0, 2>>, <<1, 1>>, <<2, 0>>, <<3, WordMod - 1>>}
ClampStreams ==
    {<<AdvTimeSeg(TRUE, t), AdvBlockSeg(TRUE, b), L2Seg("x"), x, L2BrotliSeg(TRUE, "y")>> :
        t \in {1, 3, WordMod - 1}, b \in {0, 2},
        x \in {AdvTimeSeg(TRUE, 2), AdvBlockSeg(FALSE, 1), AdvTimeSeg(FALSE, 1)}}
ClampBatches ==
    {Batch(tw[1], tw[2], bw[1], bw[2], 0, BrotliPayload(TRUE, segs)) :
        tw \in ClampWindows, bw \in ClampWindows, segs \in ClampStreams}

\* the batch of the advance-directive scenario
ScenarioAdvance ==
    Batch(0, 100, 10, 100, 0,
          BrotliPayload(TRUE, <<AdvTimeSeg(TRUE, 5), AdvBlockSeg(TRUE, 2), L2Seg("x")>>))

\* payloads in every envelope
OneSegment == BrotliPayload(TRUE, <<L2Seg("x")>>)
LeafPayloads ==
    {EmptyPayload, OneSegment, BrotliPayload(FALSE, <<>>),
     BrotliPayload(TRUE, <<L2Seg("x"), BadItem, L2Seg("y")>>),
     OtherPayload("other"), OtherPayload("authUnknown")}
ZeroheavyPayloads ==
    {ZeroheavyPayload(TRUE, OneSegment), ZeroheavyPayload(FALSE, OneSegment),
     ZeroheavyPayload(TRUE, EmptyPayload),
     ZeroheavyPayload(TRUE, ZeroheavyPayload(TRUE, OneSegment))}
GoodCert == Cert(TRUE, 0, "ok", TRUE, TRUE, TRUE, WordMod - 1, "ok")
Certs ==
    {GoodCert,
     [GoodCert EXCEPT !.parses = FALSE],
     [GoodCert EXCEPT !.version = 1],
     [GoodCert EXCEPT !.version = 2],
     [GoodCert EXCEPT !.keysetGet = "fetchErr"],
     [GoodCert EXCEPT !.keysetGet = "mismatch"],
     [GoodCert EXCEPT !.keysetParses = FALSE],
     [GoodCert EXCEPT !.keysValid = FALSE],
     [GoodCert EXCEPT !.sigOk = FALSE],
     [GoodCert EXCEPT !.sigOk = FALSE, !.keysValid = FALSE],
     [GoodCert EXCEPT !.timeout = 0],
     [GoodCert EXCEPT !.dataGet = "fetchErr"],
     [GoodCert EXCEPT !.dataGet = "mismatch"]}
DasPayloads ==
    {DasPayload(c, OneSegment) : c \in Certs}
        \cup {DasPayload(GoodCert, p) :
                p \in {EmptyPayload, ZeroheavyPayload(TRUE, OneSegment), OtherPayload("das")}}
BlobPayloads ==
    {BlobPayload(plen, Blob(g, d), OneSegment) :
        plen \in {1, 33, 34, 65}, g \in {"ok", "err"}, d \in BOOLEAN}
        \cup {BlobPayload(33, Blob("ok", TRUE), ZeroheavyPayload(TRUE, OneSegment))}
\* DAS batches whose certificate passes every check but, for some, the
\* timeout: maxTimestamp up to the largest uint64, timeouts around
\* maxTimestamp + MinLifetimeSecondsForDataAvailabilityCert
LifetimeBatches ==
    {Batch(1, maxT, 1, 3, 0, DasPayload([GoodCert EXCEPT !.timeout = t], OneSegment)) :
        maxT \in {3, WordMod - MinLifetimeSecondsForDataAvailabilityCert - 1,
                  WordMod - MinLifetimeSecondsForDataAvailabilityCert, WordMod - 1},
        t \in {MinLifetimeSecondsForDataAvailabilityCert - 1,
               MinLifetimeSecondsForDataAvailabilityCert + 2,
               MinLifetimeSecondsForDataAvailabilityCert + 3, WordMod - 1}}
EnvelopeBatches ==
    {ShortData}
        \cup LifetimeBatches
        \cup {Batch(1, 3, 1, 3, after, p) :
                after \in {0, 1},
                p \in LeafPayloads \cup ZeroheavyPayloads \cup DasPayloads \cup BlobPayloads}
ProviderLists ==
    {<<>>, <<"das">>, <<"blob">>, <<"das", "blob">>, <<"nil", "blob", "das">>,
     <<"das", "nil", "das">>}

\* batches an inbox of two is made of
PairBatches ==
    {Batch(1, 3, 1, 3, after, BrotliPayload(TRUE, segs)) :
        after \in 0..MaxDelayed,
        segs \in {<<>>, <<L2Seg("x")>>, <<DelayedSeg, AdvTimeSeg(TRUE, 1), L2Seg("x")>>,
                  <<UnknownSeg, DelayedSeg>>}}
        \cup {ShortData, Batch(1, 3, 1, 3, 0, OtherPayload("authUnknown"))}

\* a stream of n items, each an L2 segment that carries its index, with an
\* item that does not decode at index bad (none when bad = 0)
StreamOf(n, bad) ==
    SubSeq([i \in 1..n |-> IF i = bad THEN BadItem ELSE L2Seg(ToString(i))], 1, n)
\* the shapes of the streams handed to the parser on their own: lengths
\* and indexes of the item that does not decode (0: none), small and around
\* the cap on the segments of a batch
DecodeLens ==
    0..MaxSegs \cup {MaxSegmentsPerSequencerMessage, MaxSegmentsPerSequencerMessage + 1}
DecodeBads ==
    0..MaxSegs \cup {MaxSegmentsPerSequencerMessage, MaxSegmentsPerSequencerMessage + 1}
\* the batch of a shape: a header and a brotli payload that decompresses to
\* the stream
DecodeBatch(shape) ==
    Batch(1, 3, 1, 3, shape.after, BrotliPayload(TRUE, StreamOf(shape.n, shape.bad)))

Backend(inbox, delayed) ==
    [inbox |-> inbox, seqInboxPos |-> 0, posWithinMessage |-> 0, delayed |-> delayed]

(***************************************************************************)
(* The state machine                                                       *)
(***************************************************************************)
\* the multiplexer is created over a Backend that holds at least the
\* delayed messages it is said to have read
Start(inbox, delayedMessagesRead, delayed, daProviders, keysetValidationMode) ==
    /\ r = NewInboxMultiplexer(Backend(inbox, delayed), delayedMessagesRead,
                               daProviders, keysetValidationMode)
    /\ ret = [called |-> FALSE, msg |-> Nil, err |-> NoErr, pre |-> r, batch |-> Nil,
              ctx |-> "live"]
    /\ hist = [dAtLoad |-> 0, pops |-> 0, errs |-> 0, reads |-> <<>>, kinds |-> <<>>,
               drained |-> Nil]
    /\ r2 = r
    /\ ret2 = ret
    /\ calls = <<0, 0>>
    /\ decoded = Nil
    /\ stored = Nil
    /\ resumed = Nil

InitSegments ==
    \E b \in SegBatches, d \in 0..MaxDelayed :
        \E delayed \in {d, MaxDelayed} :
            Start(<<b>>, d, delayed, <<>>, KeysetValidate)

InitPairs ==
    \E b1 \in PairBatches, b2 \in PairBatches, d \in 0..MaxDelayed :
        \E delayed \in {d, MaxDelayed} :
            Start(<<b1, b2>>, d, delayed, <<>>, KeysetValidate)

InitClamp ==
    \E b \in ClampBatches \cup {ScenarioAdvance} :
        Start(<<b>>, 0, 0, <<>>, KeysetValidate)

InitEnvelopes ==
    \E b \in EnvelopeBatches, providers \in ProviderLists,
       mode \in {KeysetValidate, KeysetPanicIfInvalid, KeysetDontValidate},
       delayed \in {0, 1} :
        Start(<<b>>, 0, delayed, providers, mode)

Init == InitSegments \/ InitPairs \/ InitClamp \/ InitEnvelopes

\* the batch a Pop on m works on: the cached one, or the one it loads
\* (Nil when the Backend has none or it does not parse)
BatchOf(m) ==
    IF m.cachedSequencerMessage # Nil THEN m.cachedSequencerMessage
    ELSE IF PeekSequencerInbox(m.backend).err # NoErr THEN Nil
    ELSE parseSequencerMessage(PeekSequencerInbox(m.backend).bytes,
                               m.daProviders, m.keysetValidationMode).msg

\* what is recorded of a Pop on m that returned p
Returned(m, p) ==
    [called |-> TRUE, msg |-> p.msg, err |-> p.err, pre |-> m, batch |-> BatchOf(m),
     ctx |-> "live"]

\* the history of the batch being drained, after a Pop on m returned p:
\* reads are the numbers of the delayed messages returned for the batch, in
\* order, kinds the kinds of all messages returned for it
HistAfter(h, m, p) ==
    LET fresh == m.cachedSequencerMessage = Nil
        advanced == p.r.backend.seqInboxPos # m.backend.seqInboxPos
        read == IF p.msg # Nil /\ p.msg.kind = "Delayed" THEN <<p.msg.delayed>> ELSE <<>>
        kind == IF p.msg # Nil THEN <<p.msg.kind>> ELSE <<>>
        h1 == IF fresh /\ BatchOf(m) # Nil
              THEN [h EXCEPT !.dAtLoad = m.delayedMessagesRead, !.pops = 1,
                             !.errs = IF p.err # NoErr THEN 1 ELSE 0,
                             !.reads = read, !.kinds = kind]
              ELSE IF fresh THEN h
              ELSE [h EXCEPT !.pops = @ + 1,
                             !.errs = IF p.err # NoErr THEN @ + 1 ELSE @,
                             !.reads = @ \o read, !.kinds = @ \o kind]
    IN  IF advanced
        THEN [h1 EXCEPT !.drained = [msg |-> BatchOf(m), dAtLoad |-> h1.dAtLoad,
                                     pops |-> h1.pops, errs |-> h1.errs,
                                     reads |-> h1.reads, kinds |-> h1.kinds]]
        ELSE h1

\* the consumer calls Pop
DoPop ==
    /\ ~r.exited
    /\ r.backend.posWithinMessage < MaxPos
    /\ LET p == Pop(r)
       IN  /\ r' = p.r
           /\ ret' = Returned(r, p)
           /\ hist' = HistAfter(hist, r, p)
    /\ UNCHANGED <<r2, ret2, calls, decoded, stored, resumed>>

\* the parent-chain follower adds a message to the delayed inbox
DelayedArrives ==
    /\ r.backend.delayed < MaxDelayed
    /\ r' = [r EXCEPT !.backend.delayed = @ + 1]
    /\ UNCHANGED <<ret, hist, r2, ret2, calls, decoded, stored, resumed>>

Next == DoPop \/ DelayedArrives

Spec == Init /\ [][Next]_vars

(***************************************************************************)
(* Replay: two multiplexers created alike, each over a Backend of its own  *)
(* that holds the same batches and the same delayed inbox, popped in any   *)
(* interleaving.                                                           *)
(***************************************************************************)
InitReplay == InitPairs \/ InitClamp \/ InitEnvelopes

ReplayPopFirst ==
    /\ ~r.exited
    /\ calls[1] < MaxCalls
    /\ LET p == Pop(r)
       IN  /\ r' = p.r
           /\ ret' = Returned(r, p)
    /\ calls' = <<calls[1] + 1, calls[2]>>
    /\ UNCHANGED <<hist, r2, ret2, decoded, stored, resumed>>

ReplayPopSecond ==
    /\ ~r2.exited
    /\ calls[2] < MaxCalls
    /\ LET p == Pop(r2)
       IN  /\ r2' = p.r
           /\ ret2' = Returned(r2, p)
    /\ calls' = <<calls[1], calls[2] + 1>>
    /\ UNCHANGED <<hist, r, ret, decoded, stored, resumed>>

NextReplay == ReplayPopFirst \/ ReplayPopSecond

SpecReplay == InitReplay /\ [][NextReplay]_vars

(***************************************************************************)
(* Cancellation: the consumer may call Pop with a context that is already  *)
(* cancelled.  Pop hands its ctx to parseSequencerMessage, which hands it  *)
(* to RecoverPayloadFromBatch of the provider that claims the batch, which *)
(* hands it to its reader; nothing else reads it.  PeekSequencerInbox and  *)
(* ReadDelayedInbox take no context.  The runs are those of a multiplexer  *)
(* with no DA provider, where no reader is ever called.                    *)
(***************************************************************************)
InitCancel == InitSegments \/ InitPairs

DoPopCancelled ==
    /\ ~r.exited
    /\ r.daProviders = <<>>
    /\ r.backend.posWithinMessage < MaxPos
    /\ LET p == Pop(r)
       IN  /\ r' = p.r
           /\ ret' = [Returned(r, p) EXCEPT !.ctx = "cancelled"]
           /\ hist' = HistAfter(hist, r, p)
    /\ UNCHANGED <<r2, ret2, calls, decoded, stored, resumed>>

NextCancel == DoPop \/ DoPopCancelled \/ DelayedArrives

SpecCancel == InitCancel /\ [][NextCancel]_vars

(***************************************************************************)
(* Decoding: batches whose brotli payload holds streams of up to more than *)
(* MaxSegmentsPerSequencerMessage items.                                   *)
(***************************************************************************)
InitDecode == Start(<<>>, 0, 0, <<>>, KeysetValidate)

\* the shapes not yet parsed, the parse of one, and the next shape
Shapes ==
    [n : DecodeLens, bad : DecodeBads, after : 0..MaxDelayed]

\* a batch of some shape arrives for parseSequencerMessage
Arrive ==
    /\ IF decoded = Nil THEN TRUE ELSE decoded.done
    /\ \E shape \in Shapes :
           decoded' = [shape |-> shape, done |-> FALSE, err |-> NoErr,
                       len |-> 0, last |-> "", after |-> 0]
    /\ UNCHANGED <<r, ret, hist, r2, ret2, calls, stored, resumed>>

\* parseSequencerMessage runs on the batch; of the batch it returns, the
\* number of segments, the bytes of the last one and afterDelayedMessages
\* are recorded
Decode ==
    /\ decoded # Nil
    /\ ~decoded.done
    /\ LET parsed == parseSequencerMessage(DecodeBatch(decoded.shape), <<>>,
                                           KeysetValidate)
           segments == IF parsed.msg = Nil THEN <<>> ELSE parsed.msg.segments
       IN  decoded' = [decoded EXCEPT
                          !.done = TRUE,
                          !.err = parsed.err,
                          !.len = Len(segments),
                          !.last = IF segments = <<>> THEN ""
                                   ELSE segments[Len(segments)].body,
                          !.after = IF parsed.msg = Nil THEN 0
                                    ELSE parsed.msg.afterDelayedMessages]
    /\ UNCHANGED <<r, ret, hist, r2, ret2, calls, stored, resumed>>

NextDecode == Arrive \/ Decode

SpecDecode == InitDecode /\ [][NextDecode]_vars

(***************************************************************************)
(* Storing: the batch poster calls Store of the LayerEdge writer.  What    *)
(* the Avail writer and the LayerEdge API answer is the environment's      *)
(* choice.  On success the Avail writer returns a serialized BlobPointer,  *)
(* header byte first; answers with other bytes behind a header byte stand  *)
(* for a writer whose bytes UnmarshalFromBinary rejects.                   *)
(***************************************************************************)
BlockHeights == {0, 1, 255, 256, 65535, 65536, 16777216, 16909060}
BlobPointers == {BlobPointer(h, rest) : h \in BlockHeights, rest \in {<<0, 0>>, <<7, 255>>}}
\* what the Avail writer answers: an error, a marshalled pointer, a
\* marshalled pointer behind another first byte, or bytes that are no pointer
AvailAnswers ==
    {[kind |-> "error", err |-> "AvailError", data |-> <<>>, blobPointer |-> Nil]}
        \cup {[kind |-> "pointer", err |-> NoErr, data |-> MarshalToBinary(p),
               blobPointer |-> p] : p \in BlobPointers}
        \cup {[kind |-> "pointer", err |-> NoErr, data |-> <<0>> \o Tail(MarshalToBinary(p)),
               blobPointer |-> p] : p \in {BlobPointer(1, <<0, 0>>)}}
        \cup {[kind |-> "other", err |-> NoErr, data |-> b, blobPointer |-> Nil] :
                b \in {<<AvailMessageHeaderFlag>>,
                       <<AvailMessageHeaderFlag, 0, 0, 0, 1>>,
                       <<AvailMessageHeaderFlag, 0, 0, 0, 1, 0>>,
                       <<AvailMessageHeaderFlag, 0, 0, 0, 1, 0, 0, 0>>}}
RpcAnswers == {"ok", "transportError", "statusNotOK"}

InitStore == Start(<<>>, 0, 0, <<>>, KeysetValidate)

\* Store is called and returns
DoStore ==
    /\ \E availWriter \in AvailAnswers, rpc \in RpcAnswers, message \in {"m1", "m2"},
          timeout \in {0, WordMod - 1}, disableFallbackStoreDataOnChain \in BOOLEAN :
           LET l == NewLayerEdgeDAWriter(rpc, availWriter)
               res == Store(l, message, timeout, disableFallbackStoreDataOnChain)
           IN  stored' = [l |-> l, message |-> message, timeout |-> timeout,
                          disableFallbackStoreDataOnChain |-> disableFallbackStoreDataOnChain,
                          data |-> res.data, err |-> res.err, calls |-> res.calls]
    /\ UNCHANGED <<r, ret, hist, r2, ret2, calls, decoded, resumed>>

NextStore == DoStore

SpecStore == InitStore /\ [][NextStore]_vars

(***************************************************************************)
(* Resuming: at any point of a run a fresh multiplexer is created with the *)
(* delayedMessagesRead of the running one, over a Backend that holds what  *)
(* the running one's Backend holds and stands at the same position; from   *)
(* then on the two are popped side by side.                                *)
(***************************************************************************)
\* batches taken up in the middle: messages with directives between them,
\* segments that yield an invalid message, delayed markers and a virtual tail
ResumeStreams ==
    {<<L2Seg("x"), AdvTimeSeg(TRUE, 1), L2Seg("y"), AdvBlockSeg(TRUE, 2), L2Seg("z")>>,
     <<AdvTimeSeg(TRUE, 2), L2Seg("x"), EmptySeg, UnknownSeg, AdvTimeSeg(FALSE, 1),
       L2BrotliSeg(TRUE, "y")>>,
     <<UnknownSeg, L2BrotliSeg(FALSE, ""), AdvTimeSeg(TRUE, 1), L2Seg("x"), UnknownSeg>>,
     <<L2Seg("x"), DelayedSeg, AdvTimeSeg(TRUE, 1), DelayedSeg, L2Seg("y")>>,
     <<DelayedSeg, L2Seg("x"), AdvTimeSeg(TRUE, 1)>>,
     <<L2Seg("x"), AdvTimeSeg(TRUE, WordMod - 1), L2Seg("y"), AdvTimeSeg(TRUE, 3), L2Seg("z")>>}
ResumeBatches ==
    {Batch(1, 3, 1, 3, after, BrotliPayload(TRUE, segs)) :
        after \in 0..MaxDelayed, segs \in ResumeStreams}

InitResume ==
    \/ \E b \in ResumeBatches, d \in 0..MaxDelayed :
           \E delayed \in {d, MaxDelayed} :
               Start(<<b>>, d, delayed, <<>>, KeysetValidate)
    \/ InitPairs
    \/ InitClamp

\* the running multiplexer is popped, before the fresh one exists
PopBeforeResume ==
    /\ resumed = Nil
    /\ DoPop

\* a delayed message arrives, before the fresh multiplexer exists
ArrivesBeforeResume ==
    /\ resumed = Nil
    /\ DelayedArrives

\* the fresh multiplexer is created
Resume ==
    /\ resumed = Nil
    /\ ~r.exited
    /\ r2' = NewInboxMultiplexer(r.backend, DelayedMessagesRead(r), r.daProviders,
                                 r.keysetValidationMode)
    /\ resumed' = [posWithinMessage |-> r.backend.posWithinMessage,
                   cached |-> r.cachedSequencerMessage # Nil, pops |-> 0]
    /\ UNCHANGED <<r, ret, hist, ret2, calls, decoded, stored>>

\* both multiplexers are popped
PopBoth ==
    /\ resumed # Nil
    /\ resumed.pops < MaxCalls
    /\ LET p == Pop(r)
           p2 == Pop(r2)
       IN  /\ r' = p.r
           /\ ret' = Returned(r, p)
           /\ hist' = HistAfter(hist, r, p)
           /\ r2' = p2.r
           /\ ret2' = Returned(r2, p2)
    /\ resumed' = [resumed EXCEPT !.pops = @ + 1]
    /\ UNCHANGED <<calls, decoded, stored>>

\* a delayed message arrives in the delayed inbox both read
ArrivesForBoth ==
    /\ resumed # Nil
    /\ r.backend.delayed < MaxDelayed
    /\ r' = [r EXCEPT !.backend.delayed = @ + 1]
    /\ r2' = [r2 EXCEPT !.backend.delayed = @ + 1]
    /\ UNCHANGED <<ret, hist, ret2, calls, decoded, stored, resumed>>

NextResume == PopBeforeResume \/ ArrivesBeforeResume \/ Resume \/ PopBoth \/ ArrivesForBoth

SpecResume == InitResume /\ [][NextResume]_vars

(***************************************************************************)
(* Properties                                                              *)
(***************************************************************************)
\* the last Pop returned an error
PopFailed == ret.err # NoErr
\* the last Pop advanced the Backend past a batch
PopAdvancedBatch == r.backend.seqInboxPos # ret.pre.backend.seqInboxPos
\* the bytes of the batch the last Pop found at the Backend's position
PoppedData == ret.pre.backend.inbox[ret.pre.backend.seqInboxPos + 1]

\* C1 as stated: whenever Pop returns an error, the position within the
\* message, the inbox position and delayedMessagesRead are what they were
\* before the call (a retried Pop targets the same sub-message).
C1_NoAdvanceOnAnyError ==
    PopFailed =>
        /\ r.backend.posWithinMessage = ret.pre.backend.posWithinMessage
        /\ r.backend.seqInboxPos = ret.pre.backend.seqInboxPos
        /\ r.delayedMessagesRead = ret.pre.delayedMessagesRead

\* C1, amended: whenever Pop returns an error, the inbox position and
\* delayedMessagesRead are what they were before the call.  If the error
\* came while loading a batch (peek or parse), no batch is cached and the
\* position within the message is unchanged too; if it came from
\* ReadDelayedInbox, the batch stays cached and the position within the
\* message has advanced by exactly one.
C1_ErrorLeavesInboxAndDelayedRead ==
    PopFailed =>
        /\ r.backend.seqInboxPos = ret.pre.backend.seqInboxPos
        /\ r.delayedMessagesRead = ret.pre.delayedMessagesRead
        /\ IF ret.batch = Nil
           THEN /\ r.cachedSequencerMessage = Nil
                /\ r.backend.posWithinMessage = ret.pre.backend.posWithinMessage
           ELSE /\ r.cachedSequencerMessage = ret.batch
                /\ r.delayedMessagesRead < ret.batch.afterDelayedMessages
                /\ ret.err = "BackendError"
                /\ r.backend.posWithinMessage
                       = Wrap(ret.pre.backend.posWithinMessage + 1)

\* a Pop failed in ReadDelayedInbox, on a batch that was already cached
C1_Witness ==
    /\ PopFailed
    /\ ret.batch # Nil
    /\ ret.pre.cachedSequencerMessage # Nil
    /\ ret.pre.backend.posWithinMessage > 0

\* ---- counting the Pops that drain a batch ----
Max(a, b) == IF a >= b THEN a ELSE b
\* the segments of kind L2Message, L2MessageBrotli or DelayedMessages
RealSegments(segments) ==
    {i \in 1..Len(segments) : IsRealSegment(segments[i])}
\* the DelayedMessages segments
DelayedMarkers(segments) ==
    {i \in 1..Len(segments) : segments[i].kind = BatchSegmentKindDelayedMessages}
\* the segments getNextMsg counts as sub-messages: not empty, not a directive
SubMessageSegments(segments) ==
    {i \in 1..Len(segments) :
        segments[i].kind \notin {NoByte, BatchSegmentKindAdvanceTimestamp,
                                 BatchSegmentKindAdvanceL1BlockNumber}}
\* delayed messages the batch still promises when it is loaded with d read
Outstanding(batch, d) == Max(0, batch.afterDelayedMessages - d)
\* reads left to the virtual tail
VirtualTailReads(batch, d) ==
    Max(0, Outstanding(batch, d) - Cardinality(DelayedMarkers(batch.segments)))
\* the Pops that drain the batch, as the code makes them
PopsToDrain(batch, d) ==
    LET real == RealSegments(batch.segments)
        sub == SubMessageSegments(batch.segments)
    IN  IF VirtualTailReads(batch, d) > 0
        THEN Cardinality(sub) + VirtualTailReads(batch, d)
        ELSE Max(1, Cardinality({i \in sub : \E j \in real : i <= j}))

\* a batch was drained by Pops none of which returned an error
DrainedCleanly == hist.drained # Nil /\ hist.drained.errs = 0

\* C3 as stated: the number of Pop calls from loading a batch to the
\* Backend being advanced past it equals the number of real segments plus
\* the number of virtual delayed-tail reads (zero for a batch with neither).
C3_PopsAreRealPlusVirtual ==
    DrainedCleanly =>
        hist.drained.pops
            = Cardinality(RealSegments(hist.drained.msg.segments))
                + VirtualTailReads(hist.drained.msg, hist.drained.dAtLoad)

\* C3, amended: when no Pop on the batch returns an error, the number of
\* Pop calls from loading a batch to the Backend being advanced past it is
\* the number of real segments plus the virtual delayed-tail reads, plus one
\* Pop for every non-empty segment of unknown kind that stands before the
\* last real segment (or anywhere, when a virtual tail is read), and it is
\* never less than one: a batch with no real segment and no outstanding
\* delayed message takes exactly one Pop, which returns InvalidL1Message.
C3_PopsToDrain ==
    DrainedCleanly =>
        /\ hist.drained.pops = PopsToDrain(hist.drained.msg, hist.drained.dAtLoad)
        /\ hist.drained.pops
               >= Max(1, Cardinality(RealSegments(hist.drained.msg.segments))
                           + VirtualTailReads(hist.drained.msg, hist.drained.dAtLoad))
        /\ (/\ PopAdvancedBatch
            /\ RealSegments(hist.drained.msg.segments) = {}
            /\ Outstanding(hist.drained.msg, hist.drained.dAtLoad) = 0)
               => hist.drained.pops = 1 /\ ret.msg.kind = "Invalid"

\* a batch with an unknown segment before a real one and a virtual tail was
\* drained, and a batch with nothing to emit was drained in one Pop
C3_Witness ==
    /\ DrainedCleanly
    /\ hist.drained.pops >= 3
    /\ VirtualTailReads(hist.drained.msg, hist.drained.dAtLoad) > 0
    /\ \E i \in SubMessageSegments(hist.drained.msg.segments) :
           /\ i \notin RealSegments(hist.drained.msg.segments)
           /\ \E j \in RealSegments(hist.drained.msg.segments) : i < j

\* C4: the Pop that advances the Backend past a batch advances it by
\* exactly one batch and returns no error; afterwards delayedMessagesRead is
\* that batch's afterDelayedMessages, the position within the message is 0,
\* no batch is cached, and the segment cursor, the sub-message cursor, the
\* running timestamp and the running block number are 0.
C4_BatchAdvance ==
    PopAdvancedBatch =>
        /\ ~PopFailed
        /\ r.backend.seqInboxPos = Wrap(ret.pre.backend.seqInboxPos + 1)
        /\ r.backend.posWithinMessage = 0
        /\ r.delayedMessagesRead = PoppedData.afterDelayedMessages
        /\ r.cachedSequencerMessage = Nil
        /\ r.cachedSegmentNum = 0
        /\ r.cachedSubMessageNumber = 0
        /\ r.cachedSegmentTimestamp = 0
        /\ r.cachedSegmentBlockNumber = 0

\* a batch was advanced by a Pop that was not its first, with the running
\* timestamp moved and delayedMessagesRead changed by the advance
C4_Witness ==
    /\ PopAdvancedBatch
    /\ ret.pre.backend.posWithinMessage > 0
    /\ ret.pre.cachedSegmentTimestamp > 0
    /\ ret.pre.delayedMessagesRead # PoppedData.afterDelayedMessages

\* the last Pop returned an L2 message
ReturnedL2 == ret.msg # Nil /\ ret.msg.kind = "L2Message"

\* C5 as stated: every L2 message Pop returns lies in the windows of its
\* batch, whatever the four header values are.
C5_AlwaysInWindow ==
    ReturnedL2 =>
        /\ ret.batch.minTimestamp <= ret.msg.timestamp
        /\ ret.msg.timestamp <= ret.batch.maxTimestamp
        /\ ret.batch.minL1Block <= ret.msg.blockNumber
        /\ ret.msg.blockNumber <= ret.batch.maxL1Block

\* C5, amended: an L2 message Pop returns has its timestamp in
\* [minTimestamp, maxTimestamp] when minTimestamp <= maxTimestamp, and its
\* block number in [minL1Block, maxL1Block] when minL1Block <= maxL1Block;
\* the parser does not check the header, and for a window with min > max
\* the value returned is one of the two bounds.
C5_InWindowWhenOrdered ==
    ReturnedL2 =>
        /\ IF ret.batch.minTimestamp <= ret.batch.maxTimestamp
           THEN /\ ret.batch.minTimestamp <= ret.msg.timestamp
                /\ ret.msg.timestamp <= ret.batch.maxTimestamp
           ELSE ret.msg.timestamp \in {ret.batch.minTimestamp, ret.batch.maxTimestamp}
        /\ IF ret.batch.minL1Block <= ret.batch.maxL1Block
           THEN /\ ret.batch.minL1Block <= ret.msg.blockNumber
                /\ ret.msg.blockNumber <= ret.batch.maxL1Block
           ELSE ret.msg.blockNumber \in {ret.batch.minL1Block, ret.batch.maxL1Block}

\* an L2 message was clamped down to maxTimestamp and up to minL1Block
C5_Witness ==
    /\ ReturnedL2
    /\ ret.batch.minTimestamp < ret.batch.maxTimestamp
    /\ ret.batch.minL1Block < ret.batch.maxL1Block
    /\ r.cachedSegmentTimestamp > ret.batch.maxTimestamp
    /\ ret.msg.timestamp = ret.batch.maxTimestamp
    /\ r.cachedSegmentBlockNumber < ret.batch.minL1Block
    /\ ret.msg.blockNumber = ret.batch.minL1Block

\* ---- soft failures ----
\* the segment a Pop on m interprets in batch (the virtual DelayedMessages
\* segment when the walk ends past the last segment)
TargetSegment(m, batch) ==
    LET w == WalkSegments(batch.segments, m.backend.posWithinMessage,
                          m.cachedSegmentNum, m.cachedSegmentTimestamp,
                          m.cachedSegmentBlockNumber, m.cachedSubMessageNumber)
    IN  IF w.segmentNum >= Len(batch.segments) THEN DelayedSeg
        ELSE batch.segments[w.segmentNum + 1]
\* the Pop on m hits a soft failure: a brotli segment that does not
\* decompress, an unknown kind, a delayed marker past the promised count
SoftFailure(m, batch) ==
    LET segment == TargetSegment(m, batch)
    IN  \/ segment.kind = BatchSegmentKindL2MessageBrotli /\ ~segment.ok
        \/ ~IsRealSegment(segment)
        \/ /\ segment.kind = BatchSegmentKindDelayedMessages
           /\ m.delayedMessagesRead >= batch.afterDelayedMessages

\* C6: a Pop that interprets a sub-message and hits a soft failure returns
\* InvalidL1Message and no error, and advances exactly one cursor: either
\* the position within the message by one (the batch stays cached, the
\* inbox position stays), or the batch (inbox position plus one, position
\* within the message 0).
C6_SoftFailureAdvancesOnce ==
    (ret.batch # Nil /\ SoftFailure(ret.pre, ret.batch)) =>
        /\ ~PopFailed
        /\ ret.msg # Nil
        /\ ret.msg.kind = "Invalid"
        /\ IF PopAdvancedBatch
           THEN /\ r.backend.seqInboxPos = Wrap(ret.pre.backend.seqInboxPos + 1)
                /\ r.backend.posWithinMessage = 0
                /\ r.cachedSequencerMessage = Nil
           ELSE /\ r.backend.posWithinMessage
                       = Wrap(ret.pre.backend.posWithinMessage + 1)
                /\ r.cachedSequencerMessage = ret.batch

\* a soft failure that advanced the sub-message position only
C6_Witness ==
    /\ ret.batch # Nil
    /\ SoftFailure(ret.pre, ret.batch)
    /\ TargetSegment(ret.pre, ret.batch).kind = BatchSegmentKindL2MessageBrotli
    /\ ~PopAdvancedBatch
    /\ ret.pre.backend.posWithinMessage > 0

\* ---- errors of the parser ----
\* the last Pop was called with no batch cached and found these bytes
LoadedData == ret.called /\ ret.pre.cachedSequencerMessage = Nil
                  /\ PeekSequencerInbox(ret.pre.backend).err = NoErr
\* the last Pop left the multiplexer and the Backend's cursors as they were
PopChangedNothing ==
    /\ r.backend.seqInboxPos = ret.pre.backend.seqInboxPos
    /\ r.backend.posWithinMessage = ret.pre.backend.posWithinMessage
    /\ r.delayedMessagesRead = ret.pre.delayedMessagesRead
    /\ r.cachedSequencerMessage = ret.pre.cachedSequencerMessage
    /\ r.cachedSegmentNum = ret.pre.cachedSegmentNum
    /\ r.cachedSubMessageNumber = ret.pre.cachedSubMessageNumber
\* the last Pop loaded a blob batch that a configured blob provider claims
\* and whose hash array (the bytes after byte 41) is not a list of hashes
LoadedMalformedBlob ==
    /\ LoadedData
    /\ PoppedData.len >= 41
    /\ IsBlobHashesHeaderByte(PoppedData.payload.hb)
    /\ FirstClaiming(ret.pre.daProviders, PoppedData.payload.hb) # 0
    /\ (PoppedData.len - 41) % 32 # 0

\* the last Pop loaded a batch that a provider of the list claims
LoadedClaimed ==
    /\ LoadedData
    /\ PoppedData.len >= 41
    /\ FirstClaiming(ret.pre.daProviders, PoppedData.payload.hb) # 0

\* C7: when a provider's recover is invoked, Pop returns an error only for
\* a hash mismatch or a failure of the Backend or of a reader; a malformed
\* envelope, such as a blob batch whose hash array is not a multiple of 32
\* bytes long, is no error: recover returns null and Pop goes on with the
\* header-only batch.
C7_MalformedEnvelopeIsNoError ==
    /\ (LoadedClaimed /\ PopFailed) =>
           ret.err \in {"HashMismatch", "BackendError", "ReaderError"}
    /\ LoadedMalformedBlob =>
           /\ ~PopFailed
           /\ ret.batch # Nil
           /\ ret.batch.segments = <<>>

\* the last Pop loaded a batch whose payload starts with a DA header byte
\* that no provider of the list claims
LoadedUnclaimed ==
    /\ LoadedData
    /\ PoppedData.len >= 41
    /\ \/ IsDASMessageHeaderByte(PoppedData.payload.hb)
       \/ IsBlobHashesHeaderByte(PoppedData.payload.hb)
    /\ FirstClaiming(ret.pre.daProviders, PoppedData.payload.hb) = 0

C9_NeverDecreases ==
    ret.called => DelayedMessagesRead(r) >= DelayedMessagesRead(ret.pre)

\* C9, amended: a Pop that does not advance the batch leaves
\* delayedMessagesRead or adds one to it; a Pop that advances the batch sets
\* it to the batch's afterDelayedMessages, which is no decrease when the
\* batch was loaded with delayedMessagesRead <= afterDelayedMessages and a
\* decrease when a Pop on the batch finds delayedMessagesRead above it.
C9_DecreasesOnlyToSmallerAfter ==
    ret.called =>
        IF PopAdvancedBatch
        THEN /\ DelayedMessagesRead(r) = ret.batch.afterDelayedMessages
             /\ hist.drained.dAtLoad <= ret.batch.afterDelayedMessages
                    => DelayedMessagesRead(r) >= DelayedMessagesRead(ret.pre)
        ELSE /\ DelayedMessagesRead(r) >= DelayedMessagesRead(ret.pre)
             /\ DelayedMessagesRead(r) <= DelayedMessagesRead(ret.pre) + 1

\* the second batch of an inbox was advanced after delayed messages were
\* read for it, with delayedMessagesRead growing over both batches
C9_Witness ==
    /\ PopAdvancedBatch
    /\ r.backend.seqInboxPos = 2
    /\ hist.drained.dAtLoad > 0
    /\ hist.drained.dAtLoad < ret.batch.afterDelayedMessages
    /\ hist.drained.pops > 1

\* ---- the advance-directive scenario ----
\* the last Pop was the first one on the scenario's batch
ScenarioPop ==
    /\ LoadedData
    /\ PoppedData = ScenarioAdvance
    /\ ret.pre.backend.posWithinMessage = 0

\* C10 as stated: for minTimestamp 0, maxTimestamp 100, minL1Block 10,
\* maxL1Block 100 and segments [AdvanceTimestamp 5, AdvanceL1BlockNumber 2,
\* L2Message 'x'] the first Pop returns 'x' with timestamp 5 and block 12.
C10_ScenarioBlock12 ==
    ScenarioPop =>
        /\ ReturnedL2
        /\ ret.msg.l2msg = "x"
        /\ ret.msg.timestamp = 5
        /\ ret.msg.blockNumber = 12

\* C10, amended: the first Pop returns 'x' with timestamp 5 and block
\* number 10: the running block number starts at 0, not at minL1Block, so it
\* is 2 after the directive and is clamped up to minL1Block.
C10_ScenarioBlock10 ==
    ScenarioPop =>
        /\ ~PopFailed
        /\ ReturnedL2
        /\ ret.msg.l2msg = "x"
        /\ ret.msg.timestamp = 5
        /\ ret.msg.blockNumber = 10

\* the first Pop on the scenario's batch returned
C10_Witness ==
    /\ ScenarioPop
    /\ ret.msg # Nil
    /\ PopAdvancedBatch

\* ---- the virtual delayed tail ----
\* the delayed messages number d, d+1, ..., a-1
DelayedRun(d, a) == [i \in 1..(a - d) |-> d + i - 1]
\* the batch has no DelayedMessages segment and was loaded with
\* delayedMessagesRead d below its afterDelayedMessages
NeedsVirtualTail(batch, d) ==
    /\ DelayedMarkers(batch.segments) = {}
    /\ d < batch.afterDelayedMessages

\* C11: for a batch with no DelayedMessages segment loaded with
\* delayedMessagesRead d below its afterDelayedMessages a, while the batch is
\* cached the delayed messages returned so far are d, d+1, ... and fewer than
\* a - d; each is read through the virtual segment, when the position within
\* the message is past all sub-message segments; the Pop that returns
\* delayed message a-1, and no other, advances the batch, so that the
\* delayed messages returned for a drained batch are exactly d, ..., a-1.
C11_VirtualTailDrains ==
    /\ (r.cachedSequencerMessage # Nil
            /\ NeedsVirtualTail(r.cachedSequencerMessage, hist.dAtLoad)) =>
           /\ Len(hist.reads) < r.cachedSequencerMessage.afterDelayedMessages - hist.dAtLoad
           /\ hist.reads = DelayedRun(hist.dAtLoad, hist.dAtLoad + Len(hist.reads))
    /\ (hist.drained # Nil /\ NeedsVirtualTail(hist.drained.msg, hist.drained.dAtLoad)) =>
           hist.drained.reads
               = DelayedRun(hist.drained.dAtLoad, hist.drained.msg.afterDelayedMessages)
    /\ (ret.batch # Nil /\ NeedsVirtualTail(ret.batch, ret.pre.delayedMessagesRead)) =>
           /\ (ret.msg # Nil /\ ret.msg.kind = "Delayed") =>
                  /\ ret.msg.delayed = ret.pre.delayedMessagesRead
                  /\ ret.pre.backend.posWithinMessage
                         >= Cardinality(SubMessageSegments(ret.batch.segments))
           /\ PopAdvancedBatch <=>
                  /\ ret.msg # Nil
                  /\ ret.msg.kind = "Delayed"
                  /\ ret.msg.delayed = ret.batch.afterDelayedMessages - 1

\* a batch with an L2 segment and no DelayedMessages segment, loaded with
\* nothing read and two delayed messages promised, was drained after a read
\* of the delayed inbox had failed
C11_Witness ==
    /\ hist.drained # Nil
    /\ PopAdvancedBatch
    /\ NeedsVirtualTail(hist.drained.msg, hist.drained.dAtLoad)
    /\ hist.drained.dAtLoad = 0
    /\ hist.drained.msg.afterDelayedMessages = 2
    /\ RealSegments(hist.drained.msg.segments) # {}
    /\ hist.drained.errs > 0
    /\ hist.drained.reads = <<0, 1>>

\* ---- batches cached with zero segments ----
\* the last Pop worked on a batch with a payload that is cached with zero
\* segments (a DA recover that returned nil, a zero-heavy or brotli failure,
\* an unknown format)
ZeroSegmentPop ==
    /\ ret.called
    /\ ret.batch # Nil
    /\ ret.batch.segments = <<>>
    /\ PoppedData.len > 40
\* the last Pop loaded a DAS batch whose certificate passes every check but
\* the timeout, which is below maxTimestamp + the minimum lifetime
LoadedExpiringCert ==
    /\ LoadedClaimed
    /\ IsDASMessageHeaderByte(PoppedData.payload.hb)
    /\ PoppedData.payload.cert = [GoodCert EXCEPT !.timeout = 0]

\* C12 as stated: every Pop on a batch cached with zero segments that
\* returns a message returns an InvalidL1Message marker and nothing else,
\* whatever afterDelayedMessages and delayedMessagesRead are.
C12_ZeroSegmentsOnlyInvalid ==
    (ZeroSegmentPop /\ ~PopFailed) =>
        /\ ret.msg # Nil
        /\ ret.msg.kind = "Invalid"

\* C12, amended: a Pop on a batch cached with zero segments returns an
\* InvalidL1Message marker only when delayedMessagesRead has reached the
\* batch's afterDelayedMessages, and that Pop advances the batch.  While
\* delayedMessagesRead is below it, the Pop reads the delayed inbox through
\* the virtual segment: it returns delayed message number delayedMessagesRead
\* (advancing the batch when that was the last one promised) or the error
\* of the Backend, and no marker.
C12_ZeroSegmentsInvalidOrDelayedTail ==
    ZeroSegmentPop =>
        IF ret.pre.delayedMessagesRead >= ret.batch.afterDelayedMessages
        THEN /\ ~PopFailed
             /\ ret.msg = InvalidL1Message(ret.batch.afterDelayedMessages)
             /\ PopAdvancedBatch
        ELSE IF PopFailed
        THEN /\ ret.err = "BackendError"
             /\ ret.msg = Nil
             /\ ret.pre.delayedMessagesRead >= ret.pre.backend.delayed
             /\ ~PopAdvancedBatch
        ELSE /\ ret.msg = DelayedMessage(ret.pre.delayedMessagesRead,
                                         ret.pre.delayedMessagesRead + 1)
             /\ PopAdvancedBatch <=>
                    ret.pre.delayedMessagesRead + 1 = ret.batch.afterDelayedMessages

\* a DAS batch whose certificate expires too early was cached with zero
\* segments while a delayed message was outstanding, and Pop returned that
\* delayed message
C12_Witness ==
    /\ ZeroSegmentPop
    /\ LoadedExpiringCert
    /\ ret.pre.delayedMessagesRead < ret.batch.afterDelayedMessages
    /\ ret.msg # Nil
    /\ ret.msg.kind = "Delayed"

\* ---- errors of Stage 0 ----
\* the providers whose RecoverPayloadFromBatch the last Pop called, in order
ProvidersCalled ==
    IF LoadedData
    THEN parseSequencerMessage(PoppedData, ret.pre.daProviders,
                               ret.pre.keysetValidationMode).called
    ELSE <<>>
\* the last Pop peeked a batch shorter than 40 bytes
LoadedShort == LoadedData /\ PoppedData.len < 40
\* the last Pop peeked a batch whose payload starts with a byte that is
\* L1-authenticated and not known
LoadedOutOfDate ==
    /\ LoadedData
    /\ PoppedData.len > 40
    /\ IsL1AuthenticatedMessageHeaderByte(PoppedData.payload.hb)
    /\ ~IsKnownHeaderByte(PoppedData.payload.hb)

CursorOfPop ==
    WalkSegments(ret.batch.segments, ret.pre.backend.posWithinMessage,
                 ret.pre.cachedSegmentNum, ret.pre.cachedSegmentTimestamp,
                 ret.pre.cachedSegmentBlockNumber, ret.pre.cachedSubMessageNumber).segmentNum
\* the segments at an index greater than the cursor (segment number i - 1)
SegmentsAfterCursor == {i \in 1..Len(ret.batch.segments) : i - 1 > CursorOfPop}
\* delayedMessagesRead after the read the last Pop made, if it made one
ReadByPop ==
    IF ret.msg # Nil /\ ret.msg.kind = "Delayed"
    THEN Wrap(ret.pre.delayedMessagesRead + 1)
    ELSE ret.pre.delayedMessagesRead

\* C14: a Pop that interprets a sub-message advances the batch if and only
\* if delayedMessagesRead, after the read this Pop made, is at least
\* afterDelayedMessages and no segment after the segment cursor is of kind
\* L2Message, L2MessageBrotli or DelayedMessages; otherwise it adds one to
\* the position within the message.  Empty segments, advance directives and
\* segments of other kinds after the cursor do not keep the batch open.
C14_AdvancesBatchIffLast ==
    (ret.called /\ ret.batch # Nil) =>
        /\ PopAdvancedBatch <=>
               /\ ReadByPop >= ret.batch.afterDelayedMessages
               /\ \A i \in SegmentsAfterCursor : ~IsRealSegment(ret.batch.segments[i])
        /\ ~PopAdvancedBatch =>
               /\ r.backend.posWithinMessage = Wrap(ret.pre.backend.posWithinMessage + 1)
               /\ r.cachedSequencerMessage = ret.batch
               /\ r.cachedSegmentNum = CursorOfPop
               /\ r.delayedMessagesRead = ReadByPop

\* a Pop read the delayed message that brought delayedMessagesRead up to
\* afterDelayedMessages and advanced the batch over an empty segment and an
\* advance directive that stand after the cursor
C14_Witness ==
    /\ ret.called
    /\ ret.batch # Nil
    /\ PopAdvancedBatch
    /\ ret.msg # Nil
    /\ ret.msg.kind = "Delayed"
    /\ \E i, j \in SegmentsAfterCursor :
           /\ ret.batch.segments[i].kind = NoByte
           /\ ret.batch.segments[j].kind = BatchSegmentKindAdvanceTimestamp

\* ---- cancellation ----
\* C15: a Pop called with a context that is already cancelled calls neither
\* PeekSequencerInbox nor ReadDelayedInbox nor a provider, so it returns no
\* message drawn from them, and it changes no state.
C15_CancelledPopChangesNothing ==
    (ret.called /\ ret.ctx = "cancelled") =>
        /\ ret.msg = Nil
        /\ r = ret.pre

\* ---- decoding the segments ----
\* the number of items of a stream of n items before the first that does
\* not decode, which is item number bad
ItemsBeforeError(n, bad) == IF bad \in 1..n THEN bad - 1 ELSE n
\* the segments parseSequencerMessage returns for the batch last parsed
DecodedSegments ==
    parseSequencerMessage(DecodeBatch(decoded.shape), <<>>, KeysetValidate).msg.segments

\* C16: for a brotli-marked payload that decompresses to a stream of n
\* items, the segments of the parsed batch are the first min(k, 102400)
\* items of the stream in their order, where k = n for a well-formed stream
\* and k is the number of items before the first that does not decode
\* otherwise; the batch never holds more than 102400 segments, and neither
\* the cap nor the decode error fails it.
C16_SegmentsArePrefixUpToCap ==
    (decoded # Nil /\ decoded.done) =>
        LET k == ItemsBeforeError(decoded.shape.n, decoded.shape.bad)
            kept == IF k < MaxSegmentsPerSequencerMessage
                    THEN k ELSE MaxSegmentsPerSequencerMessage
            segments == DecodedSegments
        IN  /\ decoded.err = NoErr
            /\ decoded.after = decoded.shape.after
            /\ decoded.len = kept
            /\ decoded.len <= MaxSegmentsPerSequencerMessage
            /\ decoded.last = IF kept = 0 THEN "" ELSE ToString(kept)
            /\ Len(segments) = kept
            /\ \A i \in 1..kept : segments[i] = L2Seg(ToString(i))

\* a well-formed stream of more items than the cap was cut at the cap, and a
\* stream as long was cut at an item that does not decode
C16_Witness ==
    /\ decoded # Nil
    /\ decoded.done
    /\ decoded.shape.n = MaxSegmentsPerSequencerMessage + 1
    /\ \/ decoded.shape.bad = 0 /\ decoded.len = MaxSegmentsPerSequencerMessage
       \/ /\ decoded.shape.bad = MaxSegmentsPerSequencerMessage
          /\ decoded.len = MaxSegmentsPerSequencerMessage - 1

\* ---- segments of unknown kind ----
\* the non-empty segments whose kind byte is none of 0..4
UnknownSegments(segments) ==
    {i \in SubMessageSegments(segments) : ~IsRealSegment(segments[i])}
\* the number of the sub-message that segment u is (from 1)
Rank(u, segments) == Cardinality({i \in SubMessageSegments(segments) : i <= u})
\* segment u of a batch loaded with d delayed messages read comes to be
\* interpreted: it is the first sub-message, or a segment of kind L2Message,
\* L2MessageBrotli or DelayedMessages follows it, or delayed messages are
\* still outstanding when the sub-message before it has been handled
ComesToBeInterpreted(u, batch, d) ==
    \/ Rank(u, batch.segments) = 1
    \/ \E j \in RealSegments(batch.segments) : j > u
    \/ d + Cardinality({i \in DelayedMarkers(batch.segments) : i < u})
           < batch.afterDelayedMessages

\* C17 as stated: every non-empty segment of unknown kind yields exactly one
\* InvalidL1Message, wherever it stands in the batch: in a batch drained
\* without error the Pop of its sub-message number returned the marker.
C17_EveryUnknownYieldsInvalid ==
    DrainedCleanly =>
        \A u \in UnknownSegments(hist.drained.msg.segments) :
            /\ Rank(u, hist.drained.msg.segments) <= Len(hist.drained.kinds)
            /\ hist.drained.kinds[Rank(u, hist.drained.msg.segments)] = "Invalid"

\* C17, amended: a non-empty segment of unknown kind yields exactly one
\* InvalidL1Message if it is the batch's first sub-message, or a segment of
\* kind L2Message, L2MessageBrotli or DelayedMessages follows it, or delayed
\* messages are outstanding when it is reached; otherwise (it stands after
\* the last such segment and nothing is outstanding) the batch is advanced
\* before it and it yields nothing.  The Pop that interprets it returns the
\* marker without error.
C17_UnknownYieldsInvalidUnlessTrailing ==
    /\ DrainedCleanly =>
           \A u \in UnknownSegments(hist.drained.msg.segments) :
               LET rank == Rank(u, hist.drained.msg.segments)
               IN  IF ComesToBeInterpreted(u, hist.drained.msg, hist.drained.dAtLoad)
                   THEN /\ rank <= Len(hist.drained.kinds)
                        /\ hist.drained.kinds[rank] = "Invalid"
                   ELSE rank > hist.drained.pops
    /\ (/\ ret.batch # Nil
        /\ CursorOfPop < Len(ret.batch.segments)
        /\ ~IsRealSegment(TargetSegment(ret.pre, ret.batch))) =>
           /\ ~PopFailed
           /\ ret.msg = InvalidL1Message(r.delayedMessagesRead)

\* a batch was drained in which one segment of unknown kind, before the
\* last L2 segment, gave a marker and another, after it, gave nothing
C17_Witness ==
    /\ DrainedCleanly
    /\ \E u, v \in UnknownSegments(hist.drained.msg.segments) :
           /\ u < v
           /\ \E j \in RealSegments(hist.drained.msg.segments) : u < j /\ j < v
           /\ hist.drained.kinds[Rank(u, hist.drained.msg.segments)] = "Invalid"
           /\ Rank(v, hist.drained.msg.segments) > hist.drained.pops

\* ---- the provider loop ----
\* the providers of the list that are not nil and claim the first byte of the
\* payload the last Pop loaded
ClaimingProviders ==
    {i \in 1..Len(ret.pre.daProviders) :
        /\ ret.pre.daProviders[i] # "nil"
        /\ IsValidHeaderByte(ret.pre.daProviders[i], PoppedData.payload.hb)}
\* what the provider number p returns for the batch the last Pop loaded
RecoveredBy(p) ==
    RecoverPayloadFromBatch(ret.pre.daProviders[p], PoppedData,
                            ret.pre.keysetValidationMode)

\* C18: for a batch with a payload that passes Stage 0, at most one
\* provider's RecoverPayloadFromBatch is called: the first of the list that
\* claims the first byte of the payload, and none when none claims it.  If
\* it returns an error, Pop returns that error and no batch is cached; if it
\* returns nil, the batch is cached with zero segments and the parse has not
\* failed; if it returns bytes, the parse goes on with them and does not
\* fail, whatever their first byte is.
C18_OnlyFirstClaimingProvider ==
    (LoadedData /\ PoppedData.len > 40 /\ ~LoadedOutOfDate) =>
        /\ Len(ProvidersCalled) <= 1
        /\ ClaimingProviders = {} <=> ProvidersCalled = <<>>
        /\ ProvidersCalled # <<>> =>
               LET p == ProvidersCalled[1]
                   rec == RecoveredBy(p)
               IN  /\ p \in ClaimingProviders
                   /\ \A j \in ClaimingProviders : p <= j
                   /\ rec.err # NoErr =>
                          /\ ret.err = rec.err
                          /\ ret.msg = Nil
                          /\ ret.batch = Nil
                          /\ r.cachedSequencerMessage = Nil
                   /\ (rec.err = NoErr /\ ~rec.exit) =>
                          /\ ret.batch # Nil
                          /\ ret.err \in {NoErr, "BackendError"}
                          /\ rec.payload = Nil => ret.batch.segments = <<>>

\* of two providers that claim the DAS byte the first returned bytes that
\* start with the DAS byte again, and the second was not called
C18_Witness ==
    /\ LoadedData
    /\ PoppedData.len > 40
    /\ Cardinality(ClaimingProviders) = 2
    /\ ProvidersCalled = <<1>>
    /\ RecoveredBy(1).payload # Nil
    /\ IsDASMessageHeaderByte(RecoveredBy(1).payload.hb)
    /\ ~PopFailed

\* ---- the lifetime of a DAS certificate ----
\* the last Pop loaded a DAS batch from which the DAS provider recovered the
\* data payload
RecoveredFromDas ==
    /\ LoadedClaimed
    /\ IsDASMessageHeaderByte(PoppedData.payload.hb)
    /\ RecoveredBy(ProvidersCalled[1]).payload # Nil

\* C19: RecoverPayloadFromDasBatch returns a payload only if the timeout of
\* the certificate is at least maxTimestamp + 604800 as a sum of integers,
\* for every maxTimestamp a uint64 can hold.
C19_TimeoutCoversLifetime ==
    RecoveredFromDas =>
        PoppedData.payload.cert.timeout
            >= PoppedData.maxTimestamp + MinLifetimeSecondsForDataAvailabilityCert

\* ---- the signature of a DAS certificate ----
\* the last Pop loaded a DAS batch that the DAS provider claims and whose
\* certificate passes every check but that of the signature
LoadedBadSignature ==
    /\ LoadedClaimed
    /\ IsDASMessageHeaderByte(PoppedData.payload.hb)
    /\ PoppedData.payload.cert = [GoodCert EXCEPT !.sigOk = FALSE]
\* the last Pop loaded a DAS batch that the DAS provider claims and whose
\* certificate has a signature that does not verify
LoadedUnverifiedSignature ==
    /\ LoadedClaimed
    /\ IsDASMessageHeaderByte(PoppedData.payload.hb)
    /\ ~PoppedData.payload.cert.sigOk

\* C20 as stated: in mode KeysetDontValidate a certificate whose signature
\* does not verify still lets RecoverPayloadFromDasBatch return the data
\* payload (Pop returns its L2 message); in mode KeysetValidate it returns
\* nil.
C20_DontValidateSkipsSignature ==
    LoadedBadSignature =>
        IF ret.pre.keysetValidationMode = KeysetDontValidate
        THEN /\ RecoveredBy(ProvidersCalled[1]).payload # Nil
             /\ ReturnedL2
        ELSE RecoveredBy(ProvidersCalled[1]).payload = Nil

\* C20, amended: the signature is verified in every keyset-validation mode,
\* KeysetDontValidate included: a certificate whose signature does not
\* verify makes RecoverPayloadFromDasBatch return nil and no error, so the
\* batch is cached with zero segments and Pop returns no L2 message, in
\* KeysetDontValidate as in KeysetValidate.
C20_SignatureVerifiedInEveryMode ==
    LoadedUnverifiedSignature =>
        \/ r.exited
        \/ /\ RecoveredBy(ProvidersCalled[1]).payload = Nil
           /\ RecoveredBy(ProvidersCalled[1]).err = NoErr
           /\ ret.batch # Nil
           /\ ret.batch.segments = <<>>
           /\ ~ReturnedL2
           /\ ret.err \in {NoErr, "BackendError"}

\* in mode KeysetDontValidate a certificate that fails only the check of
\* the signature gave a batch with zero segments and an invalid-message marker
C20_Witness ==
    /\ LoadedBadSignature
    /\ ret.pre.keysetValidationMode = KeysetDontValidate
    /\ ret.batch # Nil
    /\ ret.batch.segments = <<>>
    /\ ret.msg = InvalidL1Message(r.delayedMessagesRead)

\* ---- the running timestamp and block number ----
\* the sum, in uint64, of the numbers carried by the first upTo segments that
\* are advance directives of the kind and decode
RECURSIVE SumAdvances(_, _, _)
SumAdvances(segments, upTo, kind) ==
    IF upTo = 0 THEN 0
    ELSE LET segment == segments[upTo]
         IN  Wrap(SumAdvances(segments, upTo - 1, kind)
                      + IF segment.kind = kind /\ segment.ok THEN segment.adv ELSE 0)
\* the index of the sub-message number n (counted from 0) among the
\* segments, one past the last segment when there are not that many
NthSubMessage(segments, n) ==
    LET sub == SubMessageSegments(segments)
        at == {i \in sub : Cardinality({j \in sub : j < i}) = n}
    IN  IF at = {} THEN Len(segments) + 1 ELSE CHOOSE i \in at : TRUE
\* the segments the walk has passed once the last Pop stopped at its target
WalkedByPop ==
    NthSubMessage(ret.batch.segments, ret.pre.backend.posWithinMessage) - 1

\* C21: clamping never writes back.  After any Pop on a batch the stored
\* running timestamp and running block number are the unclamped uint64 sums
\* of the advance directives walked so far in the batch (0 once the Pop has
\* advanced past the batch), and an L2 message has the timestamp
\* clamp(sum of all timestamp advances before it) and the block number
\* clamp(sum of all block-number advances before it), whatever was clamped
\* for an earlier message.
C21_ClampNeverWritesBack ==
    (ret.called /\ ret.batch # Nil) =>
        LET segments == ret.batch.segments
            timestamp == SumAdvances(segments, WalkedByPop, BatchSegmentKindAdvanceTimestamp)
            blockNumber == SumAdvances(segments, WalkedByPop,
                                       BatchSegmentKindAdvanceL1BlockNumber)
        IN  /\ r.cachedSegmentTimestamp = IF PopAdvancedBatch THEN 0 ELSE timestamp
            /\ r.cachedSegmentBlockNumber = IF PopAdvancedBatch THEN 0 ELSE blockNumber
            /\ ReturnedL2 =>
                   /\ ret.msg.timestamp
                          = Clamp(timestamp, ret.batch.minTimestamp, ret.batch.maxTimestamp)
                   /\ ret.msg.blockNumber
                          = Clamp(blockNumber, ret.batch.minL1Block, ret.batch.maxL1Block)

\* the second L2 message of a batch was returned after a first one whose
\* timestamp was clamped up to minTimestamp, with a timestamp advance between
\* the two: its timestamp is the clamp of the whole sum, which is less than
\* the first message's timestamp plus the advance
C21_Witness ==
    /\ ReturnedL2
    /\ ret.pre.backend.posWithinMessage = 1
    /\ ret.pre.cachedSegmentTimestamp > 0
    /\ ret.pre.cachedSegmentTimestamp < ret.batch.minTimestamp
    /\ ret.batch.minTimestamp < ret.batch.maxTimestamp
    /\ SumAdvances(ret.batch.segments, WalkedByPop, BatchSegmentKindAdvanceTimestamp)
           > ret.pre.cachedSegmentTimestamp
    /\ ret.msg.timestamp = ret.batch.minTimestamp
    /\ ret.msg.timestamp
           < Clamp(ret.batch.minTimestamp
                       + SumAdvances(ret.batch.segments, WalkedByPop,
                                     BatchSegmentKindAdvanceTimestamp)
                       - ret.pre.cachedSegmentTimestamp,
                   ret.batch.minTimestamp, ret.batch.maxTimestamp)

\* ---- the Store of the LayerEdge writer ----
\* the call of the Avail writer the last Store has to make
AvailCallOfStore ==
    Call("availWriter.Store",
         <<stored.message, stored.timeout, stored.disableFallbackStoreDataOnChain>>)

C23_FreshResumesTheSame ==
    (resumed # Nil /\ resumed.pops > 0) =>
        /\ ret2.msg = ret.msg
        /\ ret2.err = ret.err
        /\ r2.backend = r.backend
        /\ DelayedMessagesRead(r2) = DelayedMessagesRead(r)
        /\ r2.cachedSequencerMessage = r.cachedSequencerMessage
        /\ r.cachedSequencerMessage # Nil =>
               /\ r2.cachedSegmentNum = r.cachedSegmentNum
               /\ r2.cachedSubMessageNumber = r.cachedSubMessageNumber
               /\ r2.cachedSegmentTimestamp = r.cachedSegmentTimestamp
               /\ r2.cachedSegmentBlockNumber = r.cachedSegmentBlockNumber

\* a fresh multiplexer took up a batch at its second sub-message, behind a
\* timestamp advance the running one had walked, and both returned the same
\* L2 message with a timestamp the advance had moved
C23_Witness ==
    /\ resumed # Nil
    /\ resumed.cached
    /\ resumed.posWithinMessage = 1
    /\ resumed.pops = 1
    /\ ret2.pre.cachedSequencerMessage = Nil
    /\ ret.pre.cachedSegmentTimestamp > 0
    /\ ret2.msg # Nil
    /\ ret2.msg.kind = "L2Message"
    /\ ret2.msg.timestamp > ret2.batch.minTimestamp
    /\ ret2.msg = ret.msg

\* ---- the DelayedMessagesRead of a message ----
\* the batch the last Pop worked on was loaded with delayedMessagesRead at
\* most its afterDelayedMessages
LoadedWithinAfter ==
    /\ ret.called
    /\ ret.batch # Nil
    /\ hist.dAtLoad <= ret.batch.afterDelayedMessages

\* C24: when the batch was loaded with delayedMessagesRead at most its
\* afterDelayedMessages, every message a Pop returns without error carries
\* in DelayedMessagesRead the value DelayedMessagesRead() returns right after
\* that Pop, whatever the kind of the message (L2, delayed, invalid) and
\* also when the Pop advances the batch.
C24_MessageCarriesDelayedRead ==
    (LoadedWithinAfter /\ ~PopFailed /\ ret.msg # Nil) =>
        ret.msg.DelayedMessagesRead = DelayedMessagesRead(r)

\* the Pop that advanced the batch returned the delayed message that brought
\* delayedMessagesRead up to afterDelayedMessages, after an L2 message and an
\* invalid message had been returned for the batch
C24_Witness ==
    /\ LoadedWithinAfter
    /\ ~PopFailed
    /\ PopAdvancedBatch
    /\ ret.msg # Nil
    /\ ret.msg.kind = "Delayed"
    /\ ret.msg.DelayedMessagesRead = Wrap(ret.pre.delayedMessagesRead + 1)
    /\ ret.msg.DelayedMessagesRead = ret.batch.afterDelayedMessages
    /\ \E i, j \in 1..Len(hist.kinds) :
           hist.kinds[i] = "L2Message" /\ hist.kinds[j] = "Invalid"

\* ---- draining in finitely many Pops ----
\* the Pops within which a batch loaded with d delayed messages read is
\* said to be drained
PopsBound(batch, d) ==
    Len(batch.segments) + (batch.afterDelayedMessages - d) + 1

\* C25: when no Backend call fails, a batch that parses and is loaded with
\* delayedMessagesRead = d <= afterDelayedMessages = a is drained within
\* s + (a - d) + 1 Pops, s being the number of its segments: while the batch
\* is in progress fewer Pops than that have been made on it, so the Pop that
\* would be number s + (a - d) + 1, at the latest, advances the Backend past
\* the batch.
C25_DrainedWithinBound ==
    /\ (/\ r.cachedSequencerMessage # Nil
        /\ hist.errs = 0
        /\ hist.dAtLoad <= r.cachedSequencerMessage.afterDelayedMessages)
           => hist.pops < PopsBound(r.cachedSequencerMessage, hist.dAtLoad)
    /\ (/\ DrainedCleanly
        /\ hist.drained.dAtLoad <= hist.drained.msg.afterDelayedMessages)
           => hist.drained.pops <= PopsBound(hist.drained.msg, hist.drained.dAtLoad)

\* a batch with segments and with delayed messages outstanding at load was
\* drained, without an error, by as many Pops as it has segments and
\* outstanding delayed messages together, and the Pops went on to the next
\* batch of the queue
C25_Witness ==
    /\ DrainedCleanly
    /\ PopAdvancedBatch
    /\ Len(hist.drained.msg.segments) > 0
    /\ hist.drained.dAtLoad < hist.drained.msg.afterDelayedMessages
    /\ hist.drained.pops = PopsBound(hist.drained.msg, hist.drained.dAtLoad) - 1
    /\ r.backend.seqInboxPos = 1
    /\ Len(r.backend.inbox) = 2

====
